---- MODULE Spec2Model ----
(***************************************************************************)
(* Model of the team-invite backend: the bounded invite queue and the      *)
(* batch dispatcher of backend/app/tasks.py, the seat resolver and the     *)
(* redeem-code ledger of backend/app/routers/public.py, and the code       *)
(* administration of release 2/backend/app/routers/redeem.py.              *)
(***************************************************************************)
EXTENDS Integers, Sequences, FiniteSets, TLC

(* ---------------------------------------------------------------------- *)
(* Bounds of the model                                                     *)
(* ---------------------------------------------------------------------- *)
\* asyncio.Queue(maxsize=5000), scaled down
QUEUE_MAXSIZE == 2
\* BATCH_SIZE = 10, scaled down
BATCH_SIZE == 2
\* number of invites the producers enqueue successfully in one run
MaxEnqueued == 2
\* number of times stop_task_worker cancels a running worker
MaxStops == 1
\* number of redemption requests made in one run
MaxRequests == 3
\* @limiter.limit("10/minute"): requests admitted per address and window
RATE_LIMIT == 2
\* seconds of wall clock that go by in one run
MaxSeconds == 1
\* settings.MAX_BATCH_SIZE: emails one admin request may carry (100)
MAX_BATCH_SIZE == 3
\* batch_invite(batch_size=10): emails per bulk call of the admin invite
batch_size == 2

\* group_id values of an invite: None (falsy, written 0) or a TeamGroup id
None == 0
GroupIds == {1, 2}
GroupHints == {None} \cup GroupIds

\* the Team rows: id -> group_id / max_seats
\* teams 1 and 2 are in group 1, team 3 in group 2, team 4 in no group
TeamIds == {1, 2, 3, 4}
NoTeam == 0
TeamGroupId ==
    [t \in TeamIds |-> IF t = 4 THEN None ELSE IF t = 3 THEN 2 ELSE 1]
TeamMaxSeats == [t \in TeamIds |-> IF t = 1 THEN 2 ELSE 1]
\* the TeamGroup rows: id -> name
TeamGroupName == [g \in GroupIds |-> IF g = 1 THEN "LinuxDO" ELSE "Other"]

\* the RedeemCode rows a run can hold, and the requests for them
CodeIds == {1}
ReqIds == 1..MaxRequests
\* RedeemCodeCreate.max_uses is an int without a validator
MaxUsesInputs == {-1, 0, 1, 2}
CodeTypes == {"linuxdo", "direct"}
\* DATABASE_URL selects the dialect; sqlite is the default
Dialects == {"sqlite", "postgresql"}
\* the answers of use_redeem_code / direct_redeem
Outcomes == {"success", "invalid", "expired", "exhausted", "no_team",
             "invite_failed", "db_locked", "rate_limited"}
\* the addresses get_real_ip returns whose hits the limiter has counted
Clients == {1, 2}

VARIABLES
    queue,          \* _invite_queue: FIFO of task dicts
    nextId,         \* number of the next accepted invite (its email)
    members,        \* TeamMember rows per team (synced occupancy)
    active,         \* Team.is_active
    pc,             \* where the invite_worker task is suspended
    batch,          \* invite_worker: the collected batch
    groups,         \* process_invite_batch: groups not yet finished
    team,           \* process_invite_batch: available_team of the group
    retryIdx,       \* process_invite_batch: position in the retry loop
    pending,        \* records added to the session, not yet committed
    inviteRecords,  \* committed InviteRecord rows
    queueRecords,   \* committed InviteQueue rows
    calls,          \* history: provisioning calls issued by the worker
    groupLog,       \* history: groups the worker resolved a team for
    cycleEnd,       \* history: how the last batch ended
    cancelGroup,    \* history: emails of the group in flight at cancel
    stops,          \* history: number of times the worker was cancelled
    liveTasks,      \* invite_worker tasks created and not yet done
    errorAt,        \* history: a batch has ended in an exception
    lastEvent,      \* history: the result of the last enqueue_invite
    codes,          \* committed RedeemCode rows
    req,            \* redemption requests: where each handler is suspended
    lock,           \* request whose transaction holds the lock on the code
    dialect,        \* database dialect of the deployment
    outcomes,       \* history: number of requests answered per outcome
    hits,           \* limiter storage: hits per address in its current window
    resolved,       \* the last call of a seat resolver and what it returned
    status,         \* the last answer of get_queue_status
    clock,          \* datetime.utcnow(), in whole seconds
    queueIds,       \* history: the queue ids enqueue_invite has returned
    directLog,      \* history: what direct_redeem answered for which rows
    admin           \* the request and the response of the admin invite

vars == <<queue, nextId, members, active, pc, batch, groups, team, retryIdx,
          pending, inviteRecords, queueRecords, calls, groupLog, cycleEnd,
          cancelGroup, stops, liveTasks, errorAt, lastEvent, codes, req,
          lock, dialect, outcomes, hits, resolved, status, clock, queueIds,
          directLog, admin>>

workerVars == <<pc, batch, groups, team, retryIdx, pending, inviteRecords,
                queueRecords, calls, groupLog, cycleEnd, cancelGroup, stops,
                liveTasks, errorAt>>
teamVars == <<members, active>>
ledgerVars == <<codes, req, lock, dialect, outcomes, hits>>
queueVars == <<queue, nextId, lastEvent>>
probeVars == <<resolved, status, clock, queueIds, directLog, admin>>
dispatchVars == <<pc, batch, groups, team, retryIdx, pending, queueRecords,
                  calls, groupLog, cycleEnd, cancelGroup, stops, liveTasks,
                  errorAt>>

(* ---------------------------------------------------------------------- *)
(* Helpers                                                                 *)
(* ---------------------------------------------------------------------- *)
Range(s) == {s[i] : i \in 1..Len(s)}
Ids(items) == [i \in 1..Len(items) |-> items[i].email]

(* ---------------------------------------------------------------------- *)
(* Invite queue                                                            *)
(* ---------------------------------------------------------------------- *)
\* a queue that reports full only beyond its maxsize
QueueFull_OffByOne(q) == Len(q) > QUEUE_MAXSIZE

\* asyncio.Queue.full(), the test put_nowait makes before it raises QueueFull
QueueFull(q) == Len(q) >= QUEUE_MAXSIZE

\* the task dict built by enqueue_invite
Task(email, group_id) == [email |-> email, group_id |-> group_id]

\* an enqueue_invite that also answers "system busy" while no worker runs
enqueue_invite_WorkerOnly(group_id) ==
    /\ IF QueueFull(queue) \/ pc \in {"none", "done"}
       THEN /\ lastEvent' = "enqueue_full"
            /\ UNCHANGED <<queue, nextId>>
       ELSE /\ nextId <= MaxEnqueued
            /\ queue' = Append(queue, Task(nextId, group_id))
            /\ nextId' = nextId + 1
            /\ lastEvent' = "enqueue_ok"
    /\ UNCHANGED <<workerVars, teamVars, probeVars, ledgerVars>>

\* enqueue_invite: put_nowait, or the "system busy" exception when full
enqueue_invite(group_id) ==
    /\ IF QueueFull(queue)
       THEN /\ lastEvent' = "enqueue_full"
            /\ UNCHANGED <<queue, nextId>>
       ELSE /\ nextId <= MaxEnqueued
            /\ queue' = Append(queue, Task(nextId, group_id))
            /\ nextId' = nextId + 1
            /\ lastEvent' = "enqueue_ok"
    /\ UNCHANGED <<workerVars, teamVars, probeVars, ledgerVars>>

\* queue_id = f"q-{datetime.utcnow().strftime('%Y%m%d%H%M%S')}-{queue.qsize()}"
QueueId(now, q) == [second |-> now, qsize |-> Len(q)]

\* enqueue_invite with the queue id it returns kept in the history: the id
\* is made before put_nowait, and is returned only when the item was put
EnqueueReturns(group_id) ==
    /\ IF QueueFull(queue)
       THEN /\ lastEvent' = "enqueue_full"
            /\ UNCHANGED <<queue, nextId, queueIds>>
       ELSE /\ nextId <= MaxEnqueued
            /\ queue' = Append(queue, Task(nextId, group_id))
            /\ nextId' = nextId + 1
            /\ lastEvent' = "enqueue_ok"
            /\ queueIds' = Append(queueIds, QueueId(clock, queue))
    /\ UNCHANGED <<workerVars, teamVars, resolved, status, clock, directLog,
                   admin,
                   ledgerVars>>

\* a second of the wall clock goes by
Tick ==
    /\ clock < MaxSeconds
    /\ clock' = clock + 1
    /\ UNCHANGED <<queueVars, workerVars, teamVars, resolved, status,
                   queueIds, directLog, admin, ledgerVars>>

(* ---------------------------------------------------------------------- *)
(* Seat resolver of the dispatcher                                         *)
(* ---------------------------------------------------------------------- *)
\* a seat test that still accepts a team that is exactly full
HasSpareSeat_Inclusive(member_count, max_seats) == member_count <= max_seats

\* coalesce(member_count, 0) < Team.max_seats
HasSpareSeat(member_count, max_seats) == member_count < max_seats

\* the rows of team_query: active, of the group when one is given, not full
AvailableTeams(group_id) ==
    {t \in TeamIds : /\ active[t]
                     /\ (group_id # 0 => TeamGroupId[t] = group_id)
                     /\ HasSpareSeat(members[t], TeamMaxSeats[t])}

(* ---------------------------------------------------------------------- *)
(* process_invite_batch                                                    *)
(* ---------------------------------------------------------------------- *)
\* a grouping that puts every item under the same key
GroupKey_Single(item) == 0

\* gid = item.get("group_id") or 0
GroupKey(item) == IF item.group_id = None THEN 0 ELSE item.group_id

RECURSIVE KeyOrder(_, _)
KeyOrder(b, seen) ==
    IF b = <<>> THEN <<>>
    ELSE LET k == GroupKey(Head(b))
         IN  IF k \in seen THEN KeyOrder(Tail(b), seen)
             ELSE <<k>> \o KeyOrder(Tail(b), seen \cup {k})

\* a grouping that puts each item in front of the items of its group
GroupItems_Prepend(b, k) ==
    LET its == SelectSeq(b, LAMBDA it : GroupKey(it) = k)
    IN  [i \in 1..Len(its) |-> its[Len(its) + 1 - i]]

\* groups[gid].append(item) for the items of the batch with the key k
GroupItems(b, k) == SelectSeq(b, LAMBDA it : GroupKey(it) = k)

\* the dict groups, in insertion order, each with its items in batch order
GroupBatch(b) ==
    LET ks == KeyOrder(b, {})
    IN  [i \in 1..Len(ks) |->
            [gid |-> ks[i], items |-> GroupItems(b, ks[i])]]

\* the InviteQueue rows written for a group without an available team
NoTeamRecords(g) ==
    [i \in 1..Len(g.items) |->
        [email |-> g.items[i].email,
         group_id |-> IF g.gid # 0 THEN g.gid ELSE None,
         status |-> "failed",
         error_message |-> "all_teams_full"]]

\* the InviteRecord rows written after a bulk call that returned
BulkRecords(g, t) ==
    [i \in 1..Len(g.items) |->
        [email |-> g.items[i].email, team_id |-> t, status |-> "success",
         batch_id |-> "batch", accepted_at |-> None]]

\* a retry loop that records success without looking at its own call
RetryStatus_Blind(result) == "success"

\* the status recorded for one email of the retry loop
RetryStatus(result) == IF result = "ok" THEN "success" ELSE "failed"

\* str(e2)[:200]
ERROR_MESSAGE_MAX == 200

NoMessage == [error |-> "none", length |-> 0]

\* str(e2) of the exception a retry call raised, as its kind and its number
\* of characters: "[status] " and up to 200 characters of the response body
\* for a ChatGPTAPIError, a short text for any other exception
ErrorText(result) ==
    [error |-> result, length |-> IF result = "api_error" THEN 206 ELSE 20]

\* text[:200]
Truncated(text) ==
    [text EXCEPT !.length = IF @ > ERROR_MESSAGE_MAX THEN ERROR_MESSAGE_MAX
                            ELSE @]

\* the InviteRecord row written for one email of the retry loop
RetryRecord(item, t, result) ==
    [email |-> item.email, team_id |-> t, status |-> RetryStatus(result),
     batch_id |-> IF result = "ok" THEN "retry" ELSE "none",
     error_message |-> IF result = "ok" THEN NoMessage
                       ELSE Truncated(ErrorText(result)),
     accepted_at |-> None]

\* a retry loop that stays on the same email
NextRetryIdx_Again(i) == i

\* for item in items: the position of the next email of the retry loop
NextRetryIdx(i) == i + 1

\* a worker that leaves its loop when a batch ended in an exception
AfterBatchError_Exit == "done"

\* where invite_worker continues after process_invite_batch caught an
\* exception: the batch interval sleep
AfterBatchError == "sleep"

RECURSIVE NoTeamPrefix(_)
NoTeamPrefix(gs) ==
    IF gs = <<>> THEN 0
    ELSE IF AvailableTeams(Head(gs).gid) = {} THEN 1 + NoTeamPrefix(Tail(gs))
    ELSE 0

RECURSIVE NoTeamRecordsOf(_)
NoTeamRecordsOf(gs) ==
    IF gs = <<>> THEN <<>>
    ELSE NoTeamRecords(Head(gs)) \o NoTeamRecordsOf(Tail(gs))

\* a call of invite_members for the emails of items, as the history logs it
Call(g, t, items, kind) ==
    [gid |-> g.gid, team |-> t, items |-> items, ids |-> Ids(items),
     kind |-> kind, result |-> "pending", errored |-> {},
     notify |-> "none", status_code |-> None, effects |-> <<>>]

LogEntry(g, t) == [gid |-> g.gid, ids |-> Ids(g.items), team |-> t]

\* the group loop from the group gs[1] on, up to its next suspension: groups
\* without an available team are recorded failed and committed, the first
\* group with a team issues its bulk call, the end of the loop returns to
\* invite_worker, which sleeps
RunGroups(gs, log) ==
    LET n == NoTeamPrefix(gs)
        skipped == SubSeq(gs, 1, n)
        rest == SubSeq(gs, n + 1, Len(gs))
        skipLog == [i \in 1..n |-> LogEntry(gs[i], NoTeam)]
    IN  /\ queueRecords' = queueRecords \o NoTeamRecordsOf(skipped)
        /\ groups' = rest
        /\ retryIdx' = 0
        /\ IF rest = <<>>
           THEN /\ team' = NoTeam
                /\ pc' = "sleep"
                /\ groupLog' = log \o skipLog
                /\ cycleEnd' = "normal"
           ELSE \E t \in AvailableTeams(rest[1].gid) :
                /\ team' = t
                /\ pc' = "bulk"
                /\ groupLog' = (log \o skipLog) \o <<LogEntry(rest[1], t)>>
                /\ cycleEnd' = "running"

BulkCall(gs, t) == Call(gs[1], t, gs[1].items, "bulk")

SetLast(f, result, errored) ==
    [f EXCEPT ![Len(f)].result = result, ![Len(f)].errored = errored]

\* the status codes of the ChatGPTAPIError that _request raises, one of each
\* kind: the response status of a rejected request (elif status_code >= 400),
\* and 429 for a rate limit
ApiErrorStatuses == {400, 429}

\* the call log f after its last call raised ChatGPTAPIError(status_code, ...)
SetLastApiError(f, status_code) ==
    [SetLast(f, "api_error", {}) EXCEPT ![Len(f)].status_code = status_code]

\* a worker that takes every item the queue holds
CollectCount_All(qlen) == qlen

\* the number of items one cycle takes: the first one, then get_nowait while
\* len(batch) < BATCH_SIZE and the queue is not empty
CollectCount(qlen) == IF qlen < BATCH_SIZE THEN qlen ELSE BATCH_SIZE

\* a worker that reads the items without taking them off the queue
QueueAfterCollect_Keep(q, n) == q

\* the queue after queue.get() and the get_nowait() calls took n items
QueueAfterCollect(q, n) == SubSeq(q, n + 1, Len(q))

\* invite_worker: wait_for(queue.get()) returned an item; collect, process
CollectBatch ==
    /\ pc = "wait"
    /\ queue # <<>>
    /\ LET n == CollectCount(Len(queue))
           b == SubSeq(queue, 1, n)
       IN  /\ batch' = b
           /\ queue' = QueueAfterCollect(queue, n)
           /\ RunGroups(GroupBatch(b), <<>>)
    /\ calls' = IF groups' = <<>> THEN <<>> ELSE <<BulkCall(groups', team')>>
    /\ pending' = <<>>
    /\ cancelGroup' = <<>>
    /\ UNCHANGED <<nextId, lastEvent, inviteRecords, stops, liveTasks, errorAt,
                   teamVars, probeVars, ledgerVars>>

\* invite_worker: wait_for timed out on an empty queue; continue
WaitTimeout ==
    /\ pc = "wait"
    /\ queue = <<>>
    /\ UNCHANGED <<queue, nextId, lastEvent, workerVars, teamVars, probeVars,
                   ledgerVars>>

\* a worker that counts the emails it invited as members of the team
TeamMembersAfter_Counted(t, n) == [members EXCEPT ![t] = @ + n]

\* the team_members rows after the success records of n emails on team t
\* were committed: InviteRecord rows are added, no TeamMember row is
TeamMembersAfter(t, n) == members

\* a worker that drops the seat cache before it commits the records
AfterBulk_InvalidateFirst == <<"invalidate_seat_cache", "commit", "notify">>

\* what process_invite_batch does with the records of a bulk call that
\* returned, in program order: db.commit(), invalidate_seat_cache(), and the
\* call of send_batch_telegram_notify
AfterBulk == <<"commit", "invalidate_seat_cache", "notify">>

\* the retry loop ends with db.commit() and nothing else
AfterRetry == <<"commit">>

\* process_invite_batch: the bulk invite_members call returned a response;
\* every item is recorded success whatever the response lists as errored
BulkReturns ==
    /\ pc = "bulk"
    /\ \E errored \in {{}} \cup {{x} : x \in Range(Ids(groups[1].items))} :
          calls' = [SetLast(calls, "ok", errored)
                       EXCEPT ![Len(calls)].effects = AfterBulk]
    /\ inviteRecords' = inviteRecords \o BulkRecords(groups[1], team)
    /\ pc' = "notify"
    /\ members' = TeamMembersAfter(team, Len(groups[1].items))
    /\ UNCHANGED <<queue, nextId, lastEvent, batch, groups, team, retryIdx,
                   pending, queueRecords, groupLog, cycleEnd, cancelGroup,
                   stops, liveTasks, errorAt, active, probeVars, ledgerVars>>

\* the call log f after the loop moved on to the next group
NextCallsAfter(f, gs, t) == IF gs = <<>> THEN f ELSE Append(f, BulkCall(gs, t))
NextCalls(gs, t) == NextCallsAfter(calls, gs, t)

\* how send_batch_telegram_notify can end: the message was sent (or the
\* notification is switched off), or reading the configuration or sending
\* the message raised
NotifyResults == {"sent", "failed"}

\* a notifier that lets the exception of a failed notification out
NotifySwallowed_Not(result) == result # "failed"

\* send_batch_telegram_notify: try ... except Exception: logger.warning
NotifySwallowed(result) == TRUE

\* process_invite_batch: send_batch_telegram_notify ended; an exception it
\* swallowed leaves the loop on its way to the next group, one it let out
\* would not be a ChatGPTAPIError and so reach the outer handler
NotifyReturns ==
    /\ pc = "notify"
    /\ \E result \in NotifyResults :
          LET logged == [calls EXCEPT ![Len(calls)].notify = result]
          IN  IF NotifySwallowed(result)
              THEN /\ RunGroups(Tail(groups), groupLog)
                   /\ calls' = NextCallsAfter(logged, groups', team')
                   /\ UNCHANGED errorAt
              ELSE /\ calls' = logged
                   /\ pc' = AfterBatchError
                   /\ groups' = <<>>
                   /\ team' = NoTeam
                   /\ cycleEnd' = "exception"
                   /\ errorAt' = TRUE
                   /\ UNCHANGED <<retryIdx, queueRecords, groupLog>>
    /\ UNCHANGED <<queue, nextId, lastEvent, batch, pending, inviteRecords,
                   cancelGroup, stops, liveTasks, teamVars, probeVars,
                   ledgerVars>>

\* process_invite_batch: the bulk call raised ChatGPTAPIError with this
\* status code; retry each email, starting with the first
BulkRaises(status_code) ==
    /\ pc = "bulk"
    /\ retryIdx' = 1
    /\ calls' = Append(SetLastApiError(calls, status_code),
                       Call(groups[1], team, <<groups[1].items[1]>>,
                            "retry"))
    /\ pc' = "retry_call"
    /\ UNCHANGED <<queue, nextId, lastEvent, batch, groups, team, pending,
                   inviteRecords, queueRecords, groupLog, cycleEnd,
                   cancelGroup, stops, liveTasks, errorAt, teamVars, probeVars,
                   ledgerVars>>

\* elif response.status_code == 429: the rate limit of the external API
API_RATE_LIMITED == 429

\* the bulk call was refused by the rate limit of the external API.  The
\* handler of ChatGPTAPIError does not read the status code, so that a run
\* with another status code differs from this one in the logged code only
BulkApiError == BulkRaises(API_RATE_LIMITED)

\* process_invite_batch: the bulk call raised another exception (a response
\* body that is not JSON); the outer handler logs it and the batch ends
BulkException ==
    /\ pc = "bulk"
    /\ calls' = SetLast(calls, "exception", {})
    /\ pc' = AfterBatchError
    /\ groups' = <<>>
    /\ team' = NoTeam
    /\ pending' = <<>>
    /\ cycleEnd' = "exception"
    /\ errorAt' = TRUE
    /\ UNCHANGED <<queue, nextId, lastEvent, batch, retryIdx, inviteRecords,
                   queueRecords, groupLog, cancelGroup, stops, liveTasks,
                   teamVars, probeVars, ledgerVars>>

\* retry loop: the call for one email returned or raised; its record is added
\* (except Exception as e2 reads no status code, and the log keeps none)
RetryReturns ==
    /\ pc = "retry_call"
    /\ \E result \in {"ok", "api_error", "exception"} :
          /\ calls' = SetLast(calls, result, {})
          /\ pending' = Append(pending,
                               RetryRecord(groups[1].items[retryIdx], team,
                                           result))
    /\ pc' = "retry_sleep"
    /\ UNCHANGED <<queue, nextId, lastEvent, batch, groups, team, retryIdx,
                   inviteRecords, queueRecords, groupLog, cycleEnd,
                   cancelGroup, stops, liveTasks, errorAt, teamVars, probeVars,
                   ledgerVars>>

\* retry loop: sleep(0.5) is over; next email
RetryNext ==
    /\ pc = "retry_sleep"
    /\ retryIdx < Len(groups[1].items)
    /\ retryIdx' = NextRetryIdx(retryIdx)
    /\ calls' = Append(calls, Call(groups[1], team,
                                   <<groups[1].items[retryIdx']>>,
                                   "retry"))
    /\ pc' = "retry_call"
    /\ UNCHANGED <<queue, nextId, lastEvent, batch, groups, team, pending,
                   inviteRecords, queueRecords, groupLog, cycleEnd,
                   cancelGroup, stops, liveTasks, errorAt, teamVars, probeVars,
                   ledgerVars>>

\* retry loop: sleep(0.5) after the last email is over; commit, next group
RetryCommit ==
    /\ pc = "retry_sleep"
    /\ retryIdx = Len(groups[1].items)
    /\ inviteRecords' = inviteRecords \o pending
    /\ pending' = <<>>
    /\ RunGroups(Tail(groups), groupLog)
    /\ calls' = NextCallsAfter([calls EXCEPT ![Len(calls)].effects = AfterRetry],
                               groups', team')
    /\ UNCHANGED <<queue, nextId, lastEvent, batch, cancelGroup, stops,
                   liveTasks, errorAt, teamVars, probeVars, ledgerVars>>

\* a worker that never leaves the sleep between batches
AfterBatchSleep_Forever == "sleep"

\* invite_worker: after the sleep(1) the while True loop waits on the queue
AfterBatchSleep == "wait"

\* invite_worker: the sleep(1) between batches is over
BatchSleepDone ==
    /\ pc = "sleep"
    /\ pc' = AfterBatchSleep
    /\ batch' = <<>>
    /\ calls' = <<>>
    /\ groupLog' = <<>>
    /\ cycleEnd' = "none"
    /\ UNCHANGED <<queue, nextId, lastEvent, groups, team, retryIdx, pending,
                   inviteRecords, queueRecords, cancelGroup, stops, liveTasks,
                   errorAt, teamVars, probeVars, ledgerVars>>

(* ---------------------------------------------------------------------- *)
(* Worker lifecycle                                                        *)
(* ---------------------------------------------------------------------- *)
\* a start that never sees a running task
WorkerRunning_Never == FALSE

\* _worker_task is set and not done()
WorkerRunning == pc \notin {"none", "done"}
InGroup == pc \in {"bulk", "notify", "retry_call", "retry_sleep"}

\* start_task_worker: create the task unless one is running
start_task_worker ==
    /\ IF ~WorkerRunning
       THEN /\ pc' = "wait"
            /\ liveTasks' = liveTasks + 1
            /\ calls' = <<>>
            /\ groupLog' = <<>>
            /\ cycleEnd' = "none"
            /\ cancelGroup' = <<>>
       ELSE UNCHANGED <<pc, liveTasks, calls, groupLog, cycleEnd, cancelGroup>>
    /\ UNCHANGED <<queue, nextId, lastEvent, batch, groups, team, retryIdx,
                   pending, inviteRecords, queueRecords, stops, errorAt,
                   teamVars, probeVars, ledgerVars>>

\* a worker that swallows the cancellation and goes on with its loop
AfterCancel_Swallowed == "sleep"

\* invite_worker: except asyncio.CancelledError: break
AfterCancel == "done"

\* stop_task_worker: cancel the task and await it.  CancelledError is raised
\* at the await the task is suspended in; neither handler of
\* process_invite_batch catches it, its finally closes the session, and
\* invite_worker breaks out of its loop
stop_task_worker ==
    /\ IF WorkerRunning
       THEN /\ stops < MaxStops
            /\ stops' = stops + 1
            /\ pc' = AfterCancel
            /\ liveTasks' = liveTasks - 1
            /\ cancelGroup' = IF InGroup THEN Ids(groups[1].items) ELSE <<>>
            /\ calls' = IF pc \in {"bulk", "retry_call"}
                        THEN SetLast(calls, "cancelled", {}) ELSE calls
            /\ cycleEnd' = IF InGroup THEN "cancelled" ELSE cycleEnd
            /\ groups' = <<>>
            /\ batch' = <<>>
            /\ team' = NoTeam
            /\ retryIdx' = 0
            /\ pending' = <<>>
       ELSE UNCHANGED <<pc, cancelGroup, calls, cycleEnd, groups, batch,
                        team, retryIdx, pending, stops, liveTasks>>
    /\ UNCHANGED <<queue, nextId, lastEvent, inviteRecords, queueRecords,
                   groupLog, errorAt, teamVars, probeVars, ledgerVars>>

(* ---------------------------------------------------------------------- *)
(* Membership sync (main.py)                                               *)
(* ---------------------------------------------------------------------- *)
\* datetime.utcnow() of a sync run, as opposed to None
SyncTime == 1

\* a sync that marks the records of a team whatever their status is
Accepts_AnyStatus(rec, t, member_emails) ==
    /\ rec.team_id = t
    /\ rec.accepted_at = None
    /\ rec.email \in member_emails

\* the records sync_all_teams marks as accepted for the team t: the filter
\* of pending_invites, and the membership test on the email
Accepts(rec, t, member_emails) ==
    /\ rec.team_id = t
    /\ rec.status = "success"
    /\ rec.accepted_at = None
    /\ rec.email \in member_emails

\* the emails with a success record on the team t that is not yet accepted
Invited(t) ==
    {inviteRecords[i].email : i \in {j \in DOMAIN inviteRecords :
        /\ inviteRecords[j].team_id = t
        /\ inviteRecords[j].status = "success"
        /\ inviteRecords[j].accepted_at = None}}

\* the emails with a record on the team t, whatever its status is
Recorded(t) ==
    {inviteRecords[i].email : i \in {j \in DOMAIN inviteRecords :
        inviteRecords[j].team_id = t}}

\* sync_all_teams, one team of its loop: the member list of get_members
\* holds the members counted before, of whom the emails of present have a
\* record on the team, and the emails of joined, who accepted an invite
\* since; the records of listed emails are marked accepted, the member rows
\* are replaced by the list, and the transaction is committed.  A
\* get_members that raises leaves everything as it is.
sync_team(t, joined, present) ==
    /\ active[t]
    /\ joined \subseteq Invited(t)
    /\ present \subseteq Recorded(t) \ joined
    /\ inviteRecords' =
          [i \in DOMAIN inviteRecords |->
              IF Accepts(inviteRecords[i], t, joined \cup present)
              THEN [inviteRecords[i] EXCEPT !.accepted_at = SyncTime]
              ELSE inviteRecords[i]]
    /\ members' = [members EXCEPT ![t] = @ + Cardinality(joined)]
    /\ UNCHANGED <<queueVars, dispatchVars, active, probeVars, ledgerVars>>

(* ---------------------------------------------------------------------- *)
(* Redeem codes: administration (routers/redeem.py)                        *)
(* ---------------------------------------------------------------------- *)
NoCode ==
    [exists |-> FALSE, max_uses |-> 0, used_count |-> 0, is_active |-> FALSE,
     code_type |-> "linuxdo", group_id |-> None, expires |-> FALSE,
     expired |-> FALSE]

\* RedeemCode(...): used_count 0 and is_active True by column default
NewCode(max_uses, code_type, group_id, expires) ==
    [exists |-> TRUE, max_uses |-> max_uses, used_count |-> 0,
     is_active |-> TRUE, code_type |-> code_type, group_id |-> group_id,
     expires |-> expires, expired |-> FALSE]

FreeCodeIds == {c \in CodeIds : ~codes[c].exists}

\* batch_create_codes: count must be in 1..100; max_uses is stored as given
batch_create_codes(count, max_uses, code_type, group_id, expires) ==
    /\ count <= Cardinality(FreeCodeIds)
    /\ IF count < 1 \/ count > 100
       THEN UNCHANGED codes
       ELSE \E new \in SUBSET FreeCodeIds :
               /\ Cardinality(new) = count
               /\ \A c \in new : \A d \in FreeCodeIds \ new : c < d
               /\ codes' = [c \in CodeIds |->
                              IF c \in new
                              THEN NewCode(max_uses, code_type, group_id,
                                           expires)
                              ELSE codes[c]]
    /\ UNCHANGED <<req, lock, dialect, outcomes, hits>>
    /\ UNCHANGED <<queueVars, dispatchVars, inviteRecords, teamVars,
                   probeVars>>

\* toggle_code: flip is_active and commit; the write waits for the lock
toggle_code(c) ==
    /\ lock = 0
    /\ IF codes[c].exists
       THEN codes' = [codes EXCEPT ![c].is_active = ~codes[c].is_active]
       ELSE UNCHANGED codes
    /\ UNCHANGED <<req, lock, dialect, outcomes, hits>>
    /\ UNCHANGED <<queueVars, dispatchVars, inviteRecords, teamVars,
                   probeVars>>

\* time passes beyond expires_at of a code that has one
CodeExpires(c) ==
    /\ codes[c].exists
    /\ codes[c].expires
    /\ ~codes[c].expired
    /\ codes' = [codes EXCEPT ![c].expired = TRUE]
    /\ UNCHANGED <<req, lock, dialect, outcomes, hits>>
    /\ UNCHANGED <<queueVars, dispatchVars, inviteRecords, teamVars,
                   probeVars>>

(* ---------------------------------------------------------------------- *)
(* Redemption: use_redeem_code and direct_redeem (routers/public.py)       *)
(* ---------------------------------------------------------------------- *)
Idle == [pc |-> "idle", endpoint |-> "none", code |-> 0, team |-> NoTeam]

\* a name lookup that finds every group
GroupByName_Any(group_name) == GroupIds

\* the groups whose name is group_name
GroupByName(group_name) == {g \in GroupIds : TeamGroupName[g] = group_name}

\* a lookup that searches every team when no group has the name
NoGroupScope_Global == TeamIds

\* else: return None (no TeamGroup row has the name)
NoGroupScope == {}

\* get_available_team: the teams the loop over team_query.all() can return;
\* the query has no ORDER BY, so any team with a free seat can come first
get_available_team(group_id, group_name) ==
    LET scope ==
            IF group_id # None
            THEN {t \in TeamIds : TeamGroupId[t] = group_id}
            ELSE IF group_name # ""
            THEN IF GroupByName(group_name) # {}
                 THEN {t \in TeamIds :
                          TeamGroupId[t] \in GroupByName(group_name)}
                 ELSE NoGroupScope
            ELSE TeamIds
    IN  {t \in scope : active[t] /\ members[t] < TeamMaxSeats[t]}

\* a selection that does not filter on the code type
MatchesCode_AnyType(endpoint, c) ==
    /\ c \in CodeIds
    /\ codes[c].exists
    /\ codes[c].is_active

\* the row filter of the SELECT: code, is_active, and for direct_redeem the
\* code type
MatchesCode(endpoint, c) ==
    /\ c \in CodeIds
    /\ codes[c].exists
    /\ codes[c].is_active
    /\ (endpoint = "direct_redeem" => codes[c].code_type = "direct")

\* if code.used_count >= code.max_uses: "code used up"
Exhausted(used_count, max_uses) == used_count >= max_uses

\* checks that look at the use count before the expiry
Validate_ExhaustedFirst(endpoint, c) ==
    IF ~MatchesCode(endpoint, c) THEN "invalid"
    ELSE IF Exhausted(codes[c].used_count, codes[c].max_uses) THEN "exhausted"
    ELSE IF codes[c].expired THEN "expired"
    ELSE "ok"

\* the checks made on the selected row, in the order of the code
Validate(endpoint, c) ==
    IF ~MatchesCode(endpoint, c) THEN "invalid"
    ELSE IF codes[c].expired THEN "expired"
    ELSE IF Exhausted(codes[c].used_count, codes[c].max_uses) THEN "exhausted"
    ELSE "ok"

Answer(outcome) == [outcomes EXCEPT ![outcome] = outcomes[outcome] + 1]

\* the request ends with an HTTP error or its answer; get_db closes the
\* session, which rolls back what is not committed and releases the lock
Finish(r, outcome) ==
    /\ req' = [req EXCEPT ![r] = [Idle EXCEPT !.pc = "done"]]
    /\ outcomes' = Answer(outcome)
    /\ lock' = IF lock = r THEN 0 ELSE lock

\* a handler that commits whatever its outcome is
Committed_Always(outcome) == TRUE

\* db.commit() is only reached on the path that answers with success
Committed(outcome) == outcome = "success"

\* the committed rows after the session of a request that had executed the
\* conditional UPDATE on the code c has ended with outcome
CodesAfter(c, outcome) ==
    IF Committed(outcome)
    THEN [codes EXCEPT ![c].used_count = @ + 1]
    ELSE codes

\* the handler up to the conditional UPDATE: SELECT ... FOR UPDATE and the
\* three checks.  PostgreSQL locks the selected row until the transaction
\* ends and makes other selects of it wait; SQLite ignores FOR UPDATE
SelectRow(r, endpoint, c) ==
    /\ req[r].pc = "idle"
    /\ \A q \in ReqIds : q < r => req[q].pc # "idle"
    /\ dialect = "postgresql" => lock = 0
    /\ LET v == Validate(endpoint, c)
       IN  IF v = "ok"
           THEN /\ req' = [req EXCEPT ![r] = [pc |-> "selected",
                                              endpoint |-> endpoint,
                                              code |-> c, team |-> NoTeam]]
                /\ lock' = IF dialect = "postgresql" THEN r ELSE lock
                /\ UNCHANGED outcomes
           ELSE Finish(r, v)
    /\ UNCHANGED <<codes, dialect>>

SelectCode(r, endpoint, c) ==
    /\ SelectRow(r, endpoint, c)
    /\ UNCHANGED <<queueVars, dispatchVars, inviteRecords, teamVars,
                   probeVars>>

\* direct_redeem with its answer for a row of the table kept in the history
DirectRedeemSelect(r, c) ==
    /\ SelectRow(r, "direct_redeem", c)
    /\ directLog' =
          IF c \in CodeIds /\ codes[c].exists
          THEN directLog \cup {[code_type |-> codes[c].code_type,
                                is_active |-> codes[c].is_active,
                                outcome |-> Validate("direct_redeem", c)]}
          ELSE directLog
    /\ UNCHANGED <<queueVars, dispatchVars, inviteRecords, teamVars,
                   resolved, status, clock, queueIds, admin, hits>>

\* a request from an address without earlier hits in its window: the limiter
\* lets it through, and its count for the address is not read again
RedeemSelect(r, endpoint, c) ==
    /\ SelectCode(r, endpoint, c)
    /\ UNCHANGED hits

\* a limiter that lets every request through
Admitted_Always(count) == TRUE

\* @limiter.limit("10/minute"): the request is let through while the address
\* has fewer hits than the limit in the current window
Admitted(count) == count < RATE_LIMIT

\* a request from the address ip that the limiter lets through: the hit is
\* counted and the handler runs
LimitedRedeem(r, ip, endpoint, c) ==
    /\ Admitted(hits[ip])
    /\ hits' = [hits EXCEPT ![ip] = @ + 1]
    /\ SelectCode(r, endpoint, c)

\* a request from the address ip beyond the limit: RateLimitExceeded is
\* raised before the handler runs, rate_limit_exceeded_handler answers 429
RateLimitExceeded(r, ip) ==
    /\ ~Admitted(hits[ip])
    /\ req[r].pc = "idle"
    /\ \A q \in ReqIds : q < r => req[q].pc # "idle"
    /\ Finish(r, "rate_limited")
    /\ UNCHANGED <<codes, dialect, hits>>
    /\ UNCHANGED <<queueVars, dispatchVars, inviteRecords, teamVars,
                   probeVars>>

\* the one-minute window of the address ip is over: its hits are forgotten
WindowExpires(ip) ==
    /\ hits[ip] > 0
    /\ hits' = [hits EXCEPT ![ip] = 0]
    /\ UNCHANGED <<codes, req, lock, dialect, outcomes>>
    /\ UNCHANGED <<queueVars, dispatchVars, inviteRecords, teamVars,
                   probeVars>>

\* a conditional UPDATE that still adds a use to a code that is used up
ConsumeAllowed_Inclusive(used_count, max_uses) == used_count <= max_uses

\* the WHERE clause of the conditional UPDATE: used_count < max_uses
ConsumeAllowed(used_count, max_uses) == used_count < max_uses

\* a handler that searches every team whatever the code is bound to
ResolveFor_Global(endpoint, group_id) == get_available_team(None, "")

\* the teams the handler can get for the selected code: use_redeem_code
\* falls back on the group named LinuxDO, direct_redeem on every team
ResolveFor(endpoint, group_id) ==
    IF endpoint = "use_redeem_code" /\ group_id = None
    THEN get_available_team(None, "LinuxDO")
    ELSE get_available_team(group_id, "")

\* the handler from the conditional UPDATE to the await of invite_members.
\* The UPDATE is evaluated on the committed row under the write lock, which
\* the transaction then keeps; rowcount 0 rolls back and answers "used up";
\* without a team the handler raises and the increment is rolled back
RedeemUpdate(r) ==
    /\ req[r].pc = "selected"
    /\ lock \in {0, r}
    /\ LET c == req[r].code
           teams == ResolveFor(req[r].endpoint, codes[c].group_id)
       IN  IF ~ConsumeAllowed(codes[c].used_count, codes[c].max_uses)
           THEN Finish(r, "exhausted") /\ UNCHANGED codes
           ELSE IF teams = {}
           THEN Finish(r, "no_team") /\ codes' = CodesAfter(c, "no_team")
           ELSE /\ \E t \in teams :
                      req' = [req EXCEPT ![r].pc = "inviting", ![r].team = t]
                /\ lock' = r
                /\ UNCHANGED <<outcomes, codes>>
    /\ UNCHANGED <<dialect, hits>>
    /\ UNCHANGED <<queueVars, dispatchVars, inviteRecords, teamVars,
                   probeVars>>

\* SQLite: the UPDATE finds the database locked by another transaction for
\* longer than the busy timeout and raises OperationalError
RedeemUpdateLocked(r) ==
    /\ req[r].pc = "selected"
    /\ dialect = "sqlite"
    /\ lock \notin {0, r}
    /\ Finish(r, "db_locked")
    /\ UNCHANGED <<codes, dialect, hits>>
    /\ UNCHANGED <<queueVars, dispatchVars, inviteRecords, teamVars,
                   probeVars>>

\* the InviteRecord the handler adds before its commit
RedeemRecord(r) ==
    [email |-> r, team_id |-> req[r].team, status |-> "success",
     redeem_code |-> req[r].code,
     batch_id |-> IF req[r].endpoint = "direct_redeem" THEN "direct"
                  ELSE "redeem",
     accepted_at |-> None]

\* invite_members returned: the record is added and db.commit() makes it
\* and the increment of used_count durable
RedeemInviteReturns(r) ==
    /\ req[r].pc = "inviting"
    /\ codes' = CodesAfter(req[r].code, "success")
    /\ inviteRecords' = Append(inviteRecords, RedeemRecord(r))
    /\ Finish(r, "success")
    /\ UNCHANGED <<dialect, hits>>
    /\ UNCHANGED <<queueVars, dispatchVars, teamVars, probeVars>>

\* invite_members raised: the handler answers with an HTTP error and the
\* session is closed without a commit
RedeemInviteFails(r) ==
    /\ req[r].pc = "inviting"
    /\ Finish(r, "invite_failed")
    /\ codes' = CodesAfter(req[r].code, "invite_failed")
    /\ UNCHANGED <<dialect, hits>>
    /\ UNCHANGED <<queueVars, dispatchVars, inviteRecords, teamVars,
                   probeVars>>

(* ---------------------------------------------------------------------- *)
(* Specification of the queue and the dispatcher                           *)
(* ---------------------------------------------------------------------- *)
\* member counts of the teams 1, 2, 3, 4 the runs start from
TeamStates ==
    {<<0, 0, 0, 1>>, <<2, 0, 0, 1>>, <<2, 1, 0, 1>>, <<2, 1, 1, 1>>}

(* ---------------------------------------------------------------------- *)
(* Admin invite (routers/invites.py, services/chatgpt_api.py)              *)
(* ---------------------------------------------------------------------- *)
\* the addresses an admin request can carry; a list may repeat one
Emails == {1, 2}

Min(a, b) == IF a < b THEN a ELSE b

\* {"email": email, "success": ..., "error": None or e2.message}
InviteResult(email, success) ==
    [email |-> email, success |-> success,
     error |-> IF success THEN "none" ELSE "message"]

\* a chunk whose failed bulk call marks all its emails failed
ChunkResults_FailAll(chunk, i, bulk_failed, single_failed) ==
    [k \in 1..Len(chunk) |-> InviteResult(chunk[k], i \notin bulk_failed)]

\* batch_invite, one chunk: the bulk call for emails[i:i + batch_size]; when
\* it raises ChatGPTAPIError, one call per email of the chunk.  A call
\* fails when the run says so: bulk_failed holds the offsets of the chunks
\* whose bulk call raises, single_failed the positions of the emails whose
\* own call raises
ChunkResults(chunk, i, bulk_failed, single_failed) ==
    IF i \notin bulk_failed
    THEN [k \in 1..Len(chunk) |-> InviteResult(chunk[k], TRUE)]
    ELSE [k \in 1..Len(chunk) |->
             InviteResult(chunk[k], (i + k) \notin single_failed)]

\* for i in range(0, len(emails), batch_size)
RECURSIVE BatchFrom(_, _, _, _)
BatchFrom(emails, i, bulk_failed, single_failed) ==
    IF i >= Len(emails) THEN <<>>
    ELSE ChunkResults(SubSeq(emails, i + 1, Min(i + batch_size, Len(emails))),
                      i, bulk_failed, single_failed)
            \o BatchFrom(emails, i + batch_size, bulk_failed, single_failed)

batch_invite(emails, bulk_failed, single_failed) ==
    BatchFrom(emails, 0, bulk_failed, single_failed)

\* the InviteRecord row the endpoint adds for a result
AdminRecord(team_id, r) ==
    [email |-> r.email, team_id |-> team_id,
     status |-> IF r.success THEN "success" ELSE "failed",
     error_message |-> r.error, batch_id |-> "admin", accepted_at |-> None]

\* no admin request has been made
NoAdmin ==
    [status |-> 0, emails |-> <<>>, bulk_failed |-> {}, single_failed |-> {},
     total |-> 0, success_count |-> 0, fail_count |-> 0, results |-> <<>>]

\* the HTTPException of the endpoint
AdminError(status_code, emails) ==
    [NoAdmin EXCEPT !.status = status_code, !.emails = emails]

\* BatchInviteResponse, with the request and the failures of the run
AdminResponse(emails, bulk_failed, single_failed, results) ==
    [status |-> 200, emails |-> emails, bulk_failed |-> bulk_failed,
     single_failed |-> single_failed, total |-> Len(results),
     success_count |->
         Cardinality({k \in DOMAIN results : results[k].success}),
     fail_count |->
         Cardinality({k \in DOMAIN results : ~results[k].success}),
     results |-> results]

\* POST /teams/{team_id}/invites
invite_members(team_id, emails, bulk_failed, single_failed) ==
    /\ admin = NoAdmin
    /\ IF team_id \notin TeamIds
       THEN /\ admin' = AdminError(404, emails)
            /\ UNCHANGED inviteRecords
       ELSE IF Len(emails) > MAX_BATCH_SIZE
       THEN /\ admin' = AdminError(400, emails)
            /\ UNCHANGED inviteRecords
       ELSE LET results == batch_invite(emails, bulk_failed, single_failed)
            IN  /\ admin' = AdminResponse(emails, bulk_failed, single_failed,
                                          results)
                /\ inviteRecords' =
                      inviteRecords
                          \o [k \in 1..Len(results) |->
                                 AdminRecord(team_id, results[k])]
    /\ UNCHANGED <<queueVars, dispatchVars, teamVars, ledgerVars, resolved,
                   status, clock, queueIds, directLog>>

\* no code has been created and no request has been made
LedgerIdle ==
    /\ codes = [c \in CodeIds |-> NoCode]
    /\ req = [r \in ReqIds |-> Idle]
    /\ lock = 0
    /\ outcomes = [o \in Outcomes |-> 0]
    /\ hits = [ip \in Clients |-> 0]

\* no resolver and no status call has been made
NoResolve ==
    [caller |-> "none", group_id |-> None, group_name |-> "",
     candidates |-> {}, team |-> NoTeam]
NoStatus ==
    [queue_size |-> 0, max_size |-> 0, batch_size |-> 0, batch_interval |-> 0]

ProbeIdle ==
    /\ resolved = NoResolve
    /\ status = NoStatus
    /\ clock = 0
    /\ queueIds = <<>>
    /\ directLog = {}
    /\ admin = NoAdmin

\* the queue is empty and no worker task has been created
WorkerIdle ==
    /\ queue = <<>>
    /\ nextId = 1
    /\ pc = "none"
    /\ batch = <<>>
    /\ groups = <<>>
    /\ team = NoTeam
    /\ retryIdx = 0
    /\ pending = <<>>
    /\ inviteRecords = <<>>
    /\ queueRecords = <<>>
    /\ calls = <<>>
    /\ groupLog = <<>>
    /\ cycleEnd = "none"
    /\ cancelGroup = <<>>
    /\ stops = 0
    /\ liveTasks = 0
    /\ errorAt = FALSE
    /\ lastEvent = "init"

DispatcherInit ==
    /\ WorkerIdle
    /\ ProbeIdle
    /\ members \in TeamStates
    /\ active = [t \in TeamIds |-> TRUE]

Init ==
    /\ DispatcherInit
    /\ LedgerIdle
    /\ dialect = "sqlite"

Next ==
    \/ \E g \in GroupHints : enqueue_invite(g)
    \/ start_task_worker
    \/ stop_task_worker
    \/ WaitTimeout
    \/ CollectBatch
    \/ BulkReturns
    \/ NotifyReturns
    \/ BulkApiError
    \/ BulkException
    \/ RetryReturns
    \/ RetryNext
    \/ RetryCommit
    \/ BatchSleepDone

Spec == Init /\ [][Next]_vars

(* ---------------------------------------------------------------------- *)
(* Specification of the redeem-code ledger                                 *)
(* ---------------------------------------------------------------------- *)
Endpoints == {"use_redeem_code", "direct_redeem"}
\* the codes a request can name: the ids of the rows, and 0 for a string
\* that no row has
CodeInputs == CodeIds \cup {0}

LedgerInit ==
    /\ DispatcherInit
    /\ LedgerIdle
    /\ dialect \in Dialects

\* the request bodies of batch_create_codes: one with a count that is
\* rejected, and every combination of the other fields with count 1
CreateRequests ==
    {[count |-> 0, max_uses |-> 1, code_type |-> "linuxdo",
      group_id |-> None, expires |-> FALSE]}
        \cup [count : {1}, max_uses : MaxUsesInputs, code_type : CodeTypes,
              group_id : {None, 2}, expires : BOOLEAN]

LedgerNext ==
    \/ \E data \in CreateRequests :
          batch_create_codes(data.count, data.max_uses, data.code_type,
                             data.group_id, data.expires)
    \/ \E c \in CodeIds : toggle_code(c)
    \/ \E c \in CodeIds : CodeExpires(c)
    \/ \E r \in ReqIds, endpoint \in Endpoints, c \in CodeInputs :
          RedeemSelect(r, endpoint, c)
    \/ \E r \in ReqIds : RedeemUpdate(r)
    \/ \E r \in ReqIds : RedeemUpdateLocked(r)
    \/ \E r \in ReqIds : RedeemInviteReturns(r)
    \/ \E r \in ReqIds : RedeemInviteFails(r)

LedgerSpec == LedgerInit /\ [][LedgerNext]_vars

(* ---------------------------------------------------------------------- *)
(* Specification of the two redemption endpoints on one table of codes,     *)
(* with the answers of direct_redeem kept                                  *)
(* ---------------------------------------------------------------------- *)
DirectInit ==
    /\ Init
    /\ members = <<0, 0, 0, 1>>
    /\ dialect \in Dialects

DirectNext ==
    \/ \E data \in CreateRequests :
          batch_create_codes(data.count, data.max_uses, data.code_type,
                             data.group_id, data.expires)
    \/ \E c \in CodeIds : toggle_code(c)
    \/ \E c \in CodeIds : CodeExpires(c)
    \/ \E r \in ReqIds, c \in CodeInputs :
          RedeemSelect(r, "use_redeem_code", c)
    \/ \E r \in ReqIds, c \in CodeInputs : DirectRedeemSelect(r, c)
    \/ \E r \in ReqIds : RedeemUpdate(r)
    \/ \E r \in ReqIds : RedeemUpdateLocked(r)
    \/ \E r \in ReqIds : RedeemInviteReturns(r)
    \/ \E r \in ReqIds : RedeemInviteFails(r)

DirectSpec == DirectInit /\ [][DirectNext]_vars

(* ---------------------------------------------------------------------- *)
(* Specification of the admin invite on any list of emails and any         *)
(* pattern of failing calls                                                *)
(* ---------------------------------------------------------------------- *)
\* the lists of up to n emails
EmailLists(n) == UNION {[1..m -> Emails] : m \in 0..n}
\* the offsets at which batch_invite starts a chunk
ChunkOffsets == {i \in 0..(MAX_BATCH_SIZE - 1) : i % batch_size = 0}

AdminInit ==
    /\ Init
    /\ members = <<0, 0, 0, 1>>

AdminNext ==
    \E team_id \in {1, NoTeam}, emails \in EmailLists(MAX_BATCH_SIZE + 1),
       bulk_failed \in SUBSET ChunkOffsets,
       single_failed \in SUBSET (1..MAX_BATCH_SIZE) :
        invite_members(team_id, emails, bulk_failed, single_failed)

AdminSpec == AdminInit /\ [][AdminNext]_vars

(* ---------------------------------------------------------------------- *)
(* Specification of the worker started on a backlog: items were enqueued   *)
(* while no worker ran, more of them than a batch takes (the queue of the  *)
(* program holds 5000 items, a batch 10)                                   *)
(* ---------------------------------------------------------------------- *)
\* the queues of n items, enqueued in the order of their emails
QueuesOfLen(n) ==
    {[i \in 1..n |-> Task(i, h[i])] : h \in [1..n -> GroupHints]}

Backlogs == UNION {QueuesOfLen(n) : n \in 0..(BATCH_SIZE + 1)}

BacklogInit ==
    /\ queue \in Backlogs
    /\ nextId = Len(queue) + 1
    /\ lastEvent = IF queue = <<>> THEN "init" ELSE "enqueue_ok"
    /\ pc = "none"
    /\ batch = <<>>
    /\ groups = <<>>
    /\ team = NoTeam
    /\ retryIdx = 0
    /\ pending = <<>>
    /\ inviteRecords = <<>>
    /\ queueRecords = <<>>
    /\ calls = <<>>
    /\ groupLog = <<>>
    /\ cycleEnd = "none"
    /\ cancelGroup = <<>>
    /\ stops = 0
    /\ liveTasks = 0
    /\ errorAt = FALSE
    /\ ProbeIdle
    /\ LedgerIdle
    /\ dialect = "sqlite"
    /\ members = <<0, 0, 0, 1>>
    /\ active = [t \in TeamIds |-> TRUE]

BacklogNext ==
    \/ start_task_worker
    \/ WaitTimeout
    \/ CollectBatch
    \/ BulkReturns
    \/ NotifyReturns
    \/ BulkApiError
    \/ BulkException
    \/ RetryReturns
    \/ RetryNext
    \/ RetryCommit
    \/ BatchSleepDone

BacklogSpec == BacklogInit /\ [][BacklogNext]_vars

(* ---------------------------------------------------------------------- *)
(* Specification of the dispatcher with an external API that fails with    *)
(* any of its status codes                                                 *)
(* ---------------------------------------------------------------------- *)
TaxonomyInit ==
    /\ Init
    /\ members = <<0, 0, 0, 1>>

TaxonomyNext ==
    \/ \E g \in GroupHints : enqueue_invite(g)
    \/ start_task_worker
    \/ stop_task_worker
    \/ WaitTimeout
    \/ CollectBatch
    \/ BulkReturns
    \/ NotifyReturns
    \/ \E status_code \in ApiErrorStatuses : BulkRaises(status_code)
    \/ BulkException
    \/ RetryReturns
    \/ RetryNext
    \/ RetryCommit
    \/ BatchSleepDone

TaxonomySpec == TaxonomyInit /\ [][TaxonomyNext]_vars

(* ---------------------------------------------------------------------- *)
(* Specification of the queue with the queue ids it hands out, the wall    *)
(* clock and the worker that drains it                                     *)
(* ---------------------------------------------------------------------- *)
IdInit ==
    /\ Init
    /\ members = <<0, 0, 0, 1>>

IdNext ==
    \/ \E g \in GroupHints : EnqueueReturns(g)
    \/ Tick
    \/ start_task_worker
    \/ WaitTimeout
    \/ CollectBatch
    \/ BulkReturns
    \/ NotifyReturns
    \/ BulkApiError
    \/ BulkException
    \/ RetryReturns
    \/ RetryNext
    \/ RetryCommit
    \/ BatchSleepDone

IdSpec == IdInit /\ [][IdNext]_vars

(* ---------------------------------------------------------------------- *)
(* Specification of the queue and its worker under the scheduling of the   *)
(* event loop: a step of the worker that can be taken is taken.  Every     *)
(* await of the worker ends: wait_for has a timeout (tasks.py 217), the    *)
(* sleeps are finite (164, 239, 246), the HTTP clients have timeouts       *)
(* (chatgpt_api.py 69, telegram.py 25).  Producers, start and stop are     *)
(* under no obligation.                                                    *)
(* ---------------------------------------------------------------------- *)
WorkerStep ==
    \/ WaitTimeout
    \/ CollectBatch
    \/ BulkReturns
    \/ NotifyReturns
    \/ BulkApiError
    \/ BulkException
    \/ RetryReturns
    \/ RetryNext
    \/ RetryCommit
    \/ BatchSleepDone

LiveInit ==
    /\ Init
    /\ members = <<0, 0, 0, 1>>

\* invites without a group and invites for group 1
LiveNext ==
    \/ \E g \in {None, 1} : enqueue_invite(g)
    \/ start_task_worker
    \/ stop_task_worker
    \/ WorkerStep

LiveSpec == LiveInit /\ [][LiveNext]_vars /\ WF_vars(WorkerStep)

(* ---------------------------------------------------------------------- *)
(* Specification of the request path behind its rate limiter, with the     *)
(* invite queue beside it                                                  *)
(* ---------------------------------------------------------------------- *)
\* the request body that creates the code the requests redeem
GateCreateRequests ==
    {[count |-> 1, max_uses |-> 2, code_type |-> "direct", group_id |-> None,
      expires |-> FALSE]}

GateInit ==
    /\ Init
    /\ members = <<0, 0, 0, 1>>

GateNext ==
    \/ \E data \in GateCreateRequests :
          batch_create_codes(data.count, data.max_uses, data.code_type,
                             data.group_id, data.expires)
    \/ \E r \in ReqIds, ip \in Clients, endpoint \in Endpoints,
          c \in CodeInputs :
          LimitedRedeem(r, ip, endpoint, c)
    \/ \E r \in ReqIds, ip \in Clients : RateLimitExceeded(r, ip)
    \/ \E ip \in Clients : WindowExpires(ip)
    \/ \E r \in ReqIds : RedeemUpdate(r)
    \/ \E r \in ReqIds : RedeemUpdateLocked(r)
    \/ \E r \in ReqIds : RedeemInviteReturns(r)
    \/ \E r \in ReqIds : RedeemInviteFails(r)
    \/ enqueue_invite(None)

GateSpec == GateInit /\ [][GateNext]_vars

(* ---------------------------------------------------------------------- *)
(* get_queue_status, and the specification of the queue with its observer  *)
(* ---------------------------------------------------------------------- *)
\* BATCH_INTERVAL = 3
BATCH_INTERVAL == 3

\* a status that counts the items of the batch in progress as queued
QueueSize_WithBatch(q) == Len(q) + Len(batch)

\* queue.qsize()
QueueSize(q) == Len(q)

\* get_queue_status: the answer is kept in status; "max_size" is the literal
\* 5000, the number given to asyncio.Queue, and is scaled with it
get_queue_status ==
    /\ status' = [queue_size |-> QueueSize(queue),
                  max_size |-> QUEUE_MAXSIZE,
                  batch_size |-> BATCH_SIZE,
                  batch_interval |-> BATCH_INTERVAL]
    /\ UNCHANGED <<queueVars, workerVars, teamVars, ledgerVars, resolved,
                   clock, queueIds, directLog, admin>>

QueueNext ==
    \/ Next
    \/ get_queue_status

QueueSpec == Init /\ [][QueueNext]_vars

(* ---------------------------------------------------------------------- *)
(* Specification of the dispatcher with the membership sync beside it      *)
(* ---------------------------------------------------------------------- *)
AuditInit ==
    /\ Init
    /\ members = <<2, 1, 0, 1>>

AuditNext ==
    \/ Next
    \/ \E t \in TeamIds :
          \E joined \in SUBSET Invited(t) :
             \E present \in SUBSET (Recorded(t) \ joined) :
                sync_team(t, joined, present)

AuditSpec == AuditInit /\ [][AuditNext]_vars

(* ---------------------------------------------------------------------- *)
(* Specification of the seat resolvers on any snapshot                     *)
(* ---------------------------------------------------------------------- *)
GroupNames == {"", "LinuxDO", "Missing"}

\* what a resolver returns from its candidates: one of them, or None
Resolution(caller, group_id, group_name, candidates) ==
    {[caller |-> caller, group_id |-> group_id, group_name |-> group_name,
      candidates |-> candidates, team |-> t] :
        t \in IF candidates = {} THEN {NoTeam} ELSE candidates}

\* a call of get_available_team(db, group_id, group_name)
ResolveRequest(group_id, group_name) ==
    /\ resolved' \in Resolution("get_available_team", group_id, group_name,
                                 get_available_team(group_id, group_name))
    /\ UNCHANGED <<queueVars, workerVars, teamVars, ledgerVars, status,
                   clock, queueIds, directLog, admin>>

\* the team query of process_invite_batch for an item with this group_id
ResolveDispatch(group_id) ==
    /\ resolved' \in Resolution("process_invite_batch", group_id, "",
                                 AvailableTeams(GroupKey(Task(0, group_id))))
    /\ UNCHANGED <<queueVars, workerVars, teamVars, ledgerVars, status,
                   clock, queueIds, directLog, admin>>

\* any occupancy up to max_seats and any is_active flags
ResolverInit ==
    /\ WorkerIdle
    /\ ProbeIdle
    /\ LedgerIdle
    /\ dialect = "sqlite"
    /\ members \in [TeamIds -> 0..2]
    /\ \A t \in TeamIds : members[t] <= TeamMaxSeats[t]
    /\ active \in [TeamIds -> BOOLEAN]

ResolverNext ==
    \/ \E group_id \in GroupHints, group_name \in GroupNames :
          ResolveRequest(group_id, group_name)
    \/ \E group_id \in GroupHints : ResolveDispatch(group_id)

ResolverSpec == ResolverInit /\ [][ResolverNext]_vars

(* ---------------------------------------------------------------------- *)
(* Specification of the whole core: the worker, the request handlers and   *)
(* the resolvers.  They share the teams, which none of them writes, and    *)
(* the invite_records table, to which they only add rows; each of them is  *)
(* run from the common initial state while the others have not acted.      *)
(* ---------------------------------------------------------------------- *)
\* nothing has been enqueued and no worker has been started or stopped
DispatcherUntouched ==
    /\ nextId = 1
    /\ pc = "none"
    /\ stops = 0
    /\ lastEvent = "init"

SystemInit == LedgerInit

SystemNext ==
    \/ LedgerIdle /\ ProbeIdle /\ Next
    \/ DispatcherUntouched /\ ProbeIdle /\ LedgerNext
    \/ DispatcherUntouched /\ LedgerIdle /\ ResolverNext

SystemSpec == SystemInit /\ [][SystemNext]_vars

(* ---------------------------------------------------------------------- *)
(* Properties of the invite queue                                          *)
(* ---------------------------------------------------------------------- *)
\* a step in which enqueue_invite answered
EnqueueAttempt == lastEvent' # lastEvent \/ nextId' # nextId

\* C4: the queue never holds more than QUEUE_MAXSIZE items; with a full
\* queue enqueue_invite is still enabled (it does not wait for the worker),
\* and an attempt then fails with the queue-full error and leaves the queue
\* as it was.
C4_Backpressure ==
    /\ [](Len(queue) <= QUEUE_MAXSIZE)
    /\ [](Len(queue) >= QUEUE_MAXSIZE
            => ENABLED (\E g \in GroupHints : enqueue_invite(g)))
    /\ [][(Len(queue) >= QUEUE_MAXSIZE /\ EnqueueAttempt)
            => (lastEvent' = "enqueue_full" /\ queue' = queue)]_vars

C4_Witness ==
    /\ lastEvent = "enqueue_full"
    /\ Len(queue) = QUEUE_MAXSIZE
    /\ WorkerRunning

(* ---------------------------------------------------------------------- *)
(* Properties of the dispatcher                                            *)
(* ---------------------------------------------------------------------- *)
InviteRecordsOf(id) ==
    {i \in DOMAIN inviteRecords : inviteRecords[i].email = id}
QueueRecordsOf(id) ==
    {i \in DOMAIN queueRecords : queueRecords[i].email = id}
CallsWith(id) == {i \in DOMAIN calls : id \in Range(calls[i].ids)}
RetryCallsOf(id) ==
    {i \in DOMAIN calls : calls[i].kind = "retry" /\ calls[i].ids = <<id>>}
BulkCallsFor(g) ==
    {i \in DOMAIN calls : calls[i].kind = "bulk" /\ calls[i].gid = g}
BatchHas(g) == \E j \in DOMAIN batch : batch[j].group_id = g

\* the teams of a scope that are active and not full, read off the state
SpareTeams(g) ==
    {t \in TeamIds : /\ active[t]
                     /\ (g # None => TeamGroupId[t] = g)
                     /\ members[t] < TeamMaxSeats[t]}

RECURSIVE SpareSeats(_)
SpareSeats(S) ==
    IF S = {} THEN 0
    ELSE LET t == CHOOSE x \in S : TRUE
         IN  (TeamMaxSeats[t] - members[t]) + SpareSeats(S \ {t})

\* the capacity left in the pool g
PoolCapacity(g) ==
    SpareSeats({t \in TeamIds : active[t] /\ TeamGroupId[t] = g})

SuccessCount(S) ==
    Cardinality({i \in DOMAIN inviteRecords :
                    /\ inviteRecords[i].email \in S
                    /\ inviteRecords[i].status = "success"})
NoCapacityCount(S) ==
    Cardinality({i \in DOMAIN queueRecords :
                    /\ queueRecords[i].email \in S
                    /\ queueRecords[i].status = "failed"
                    /\ queueRecords[i].error_message = "all_teams_full"})

\* everything enqueued so far went into the batch that just ended normally,
\* every item was for the pool g and every call was answered with success
DrainedFor(g) ==
    /\ pc = "sleep"
    /\ cycleEnd = "normal"
    /\ queue = <<>>
    /\ Len(batch) = nextId - 1
    /\ \A j \in DOMAIN batch : batch[j].group_id = g
    /\ \A i \in DOMAIN calls : calls[i].result = "ok"

\* C2: no oversell.  When N subjects were enqueued for a pool with capacity
\* K < N and the dispatcher has drained the queue, exactly K of them have a
\* success record and the other N - K a failed no-capacity record.
C2_NoOversell ==
    \A g \in GroupIds :
        (DrainedFor(g) /\ Len(batch) > PoolCapacity(g))
            => /\ SuccessCount(Range(Ids(batch))) = PoolCapacity(g)
               /\ NoCapacityCount(Range(Ids(batch)))
                      = Len(batch) - PoolCapacity(g)

\* C5 as amended: every provisioning call carries emails of one target group
\* only and goes to a team of that group; a group gets at most one bulk
\* call: exactly one, with all its emails in batch order and to the team
\* resolved for it, when a team with a spare seat was found, and none when
\* no team was found; a batch that ended normally has gone through every
\* group it contains.
C5_BatchGrouping ==
    /\ \A i \in DOMAIN calls :
          /\ \A j \in DOMAIN calls[i].items :
                calls[i].items[j].group_id = calls[i].items[1].group_id
          /\ calls[i].items[1].group_id # None
                => TeamGroupId[calls[i].team] = calls[i].items[1].group_id
    /\ \A g \in GroupHints : Cardinality(BulkCallsFor(g)) <= 1
    /\ \A k \in DOMAIN groupLog :
          IF groupLog[k].team = NoTeam
          THEN BulkCallsFor(groupLog[k].gid) = {}
          ELSE \E i \in BulkCallsFor(groupLog[k].gid) :
                  /\ calls[i].ids = groupLog[k].ids
                  /\ calls[i].team = groupLog[k].team
    /\ \A i \in DOMAIN calls :
          calls[i].kind = "bulk"
              => \E k \in DOMAIN groupLog : groupLog[k].gid = calls[i].gid
    /\ cycleEnd = "normal"
          => \A j \in DOMAIN batch :
                \E k \in DOMAIN groupLog :
                   groupLog[k].ids =
                      Ids(SelectSeq(batch, LAMBDA it :
                                       it.group_id = batch[j].group_id))

\* C5 as stated: a batch with items for the groups 1 and 2 that ended
\* normally has caused exactly one bulk call for each of the two groups.
C5_OneCallPerPool ==
    (pc = "sleep" /\ cycleEnd = "normal" /\ BatchHas(1) /\ BatchHas(2))
        => /\ Cardinality(BulkCallsFor(1)) = 1
           /\ Cardinality(BulkCallsFor(2)) = 1

C5_Witness ==
    /\ pc = "sleep"
    /\ cycleEnd = "normal"
    /\ BatchHas(1)
    /\ BatchHas(2)
    /\ \E i \in BulkCallsFor(1) : calls[i].result = "ok"
    /\ \E i \in BulkCallsFor(2) : calls[i].result = "ok"

\* C6: when the answer to a bulk call lists some of its emails as errored,
\* those emails are recorded failed and the other ones success, and none of
\* them is sent again.
C6_PartialFailure ==
    \A i \in DOMAIN calls :
        (/\ calls[i].kind = "bulk"
         /\ calls[i].result = "ok"
         /\ Len(calls[i].ids) >= 2
         /\ calls[i].errored # {})
            => \A id \in Range(calls[i].ids) :
                  /\ RetryCallsOf(id) = {}
                  /\ Cardinality(InviteRecordsOf(id)) = 1
                  /\ \A r \in InviteRecordsOf(id) :
                        inviteRecords[r].status =
                           IF id \in calls[i].errored THEN "failed"
                           ELSE "success"

\* the status that the retry call made for the email id stands for
OwnStatus(id) ==
    IF \E i \in RetryCallsOf(id) : calls[i].result = "ok"
    THEN "success" ELSE "failed"

\* the group of the bulk call calls[k] is behind the worker
GroupFinished(k) ==
    \/ cycleEnd = "normal"
    \/ \E j \in DOMAIN calls : j > k /\ calls[j].kind = "bulk"

\* C7: retry calls are made only after a bulk call that raised the API
\* error, one email each; once the group is finished every email of it was
\* retried exactly once and has exactly one record, whose status is that of
\* its own retry call; records waiting for the commit agree with their own
\* call as well.
C7_PerItemRetry ==
    /\ \A i \in DOMAIN calls :
          calls[i].kind = "retry"
              => /\ Len(calls[i].ids) = 1
                 /\ Cardinality(RetryCallsOf(calls[i].ids[1])) = 1
                 /\ \E k \in 1..(i - 1) :
                       /\ calls[k].kind = "bulk"
                       /\ calls[k].result = "api_error"
                       /\ calls[k].team = calls[i].team
                       /\ calls[i].ids[1] \in Range(calls[k].ids)
    /\ \A k \in DOMAIN calls :
          (/\ calls[k].kind = "bulk"
           /\ calls[k].result = "api_error"
           /\ GroupFinished(k))
              => \A id \in Range(calls[k].ids) :
                    /\ Cardinality(RetryCallsOf(id)) = 1
                    /\ Cardinality(InviteRecordsOf(id)) = 1
                    /\ \A r \in InviteRecordsOf(id) :
                          /\ inviteRecords[r].status = OwnStatus(id)
                          /\ inviteRecords[r].team_id = calls[k].team
    /\ \A j \in DOMAIN pending :
          pending[j].status = OwnStatus(pending[j].email)

C7_Witness ==
    /\ pc = "sleep"
    /\ cycleEnd = "normal"
    /\ \E k \in DOMAIN calls :
          /\ calls[k].kind = "bulk"
          /\ calls[k].result = "api_error"
          /\ Len(calls[k].ids) = 2
          /\ \E a, b \in Range(calls[k].ids) :
                /\ \E r \in InviteRecordsOf(a) :
                      inviteRecords[r].status = "success"
                /\ \E r \in InviteRecordsOf(b) :
                      inviteRecords[r].status = "failed"

\* C8: a group is taken without a team exactly when no active team of its
\* scope has a spare seat; each of its emails then has exactly one failed
\* InviteQueue row with the no-capacity message, no provisioning call and no
\* InviteRecord; an email with such a row is never in the queue again.
C8_NoCapacity ==
    /\ \A k \in DOMAIN groupLog :
          /\ (groupLog[k].team = NoTeam) <=> (SpareTeams(groupLog[k].gid) = {})
          /\ groupLog[k].team = NoTeam
                => \A id \in Range(groupLog[k].ids) :
                      /\ Cardinality(QueueRecordsOf(id)) = 1
                      /\ CallsWith(id) = {}
    /\ \A r \in DOMAIN queueRecords :
          /\ queueRecords[r].status = "failed"
          /\ queueRecords[r].error_message = "all_teams_full"
          /\ Cardinality(QueueRecordsOf(queueRecords[r].email)) = 1
          /\ InviteRecordsOf(queueRecords[r].email) = {}
          /\ CallsWith(queueRecords[r].email) = {}
          /\ queueRecords[r].email \notin Range(Ids(queue))
          /\ \A j \in DOMAIN pending :
                pending[j].email # queueRecords[r].email

C8_Witness ==
    /\ pc = "bulk"
    /\ Len(groupLog) = 2
    /\ groupLog[1].team = NoTeam
    /\ Len(groupLog[1].ids) = 1
    /\ Len(queueRecords) = 1

\* C9: when the worker has been cancelled while it was dispatching a group,
\* every email of that group has a committed record once the worker is done.
C9_GracefulShutdown ==
    pc = "done"
        => \A id \in Range(cancelGroup) :
              InviteRecordsOf(id) # {} \/ QueueRecordsOf(id) # {}

\* C10: the worker task ends only by cancellation; a batch that ends in an
\* unexpected exception leaves the worker at the sleep between batches,
\* from where the next cycle starts.
C10_Supervisor ==
    /\ [](pc = "done" => stops > 0)
    /\ [](cycleEnd = "exception" => (pc = "sleep" \/ stops > 0))
    /\ [][(cycleEnd' = "exception" /\ cycleEnd # "exception")
            => pc' = "sleep"]_vars
    /\ [][(cycleEnd = "exception" /\ pc = "sleep" /\ pc' # "sleep")
            => (pc' = "wait" \/ stops' > stops)]_vars

\* after a batch that ended in an exception the same worker has taken a
\* later batch and completed a call for it
C10_Witness ==
    /\ errorAt
    /\ stops = 0
    /\ pc = "notify"
    /\ cycleEnd = "running"
    /\ calls[Len(calls)].result = "ok"

(* ---------------------------------------------------------------------- *)
(* Properties of the redeem-code ledger                                    *)
(* ---------------------------------------------------------------------- *)
\* the committed InviteRecord rows of redemptions of the code c
RedemptionsOf(c) ==
    {i \in DOMAIN inviteRecords :
        /\ inviteRecords[i].batch_id \in {"redeem", "direct"}
        /\ inviteRecords[i].redeem_code = c}

\* the requests that hold an uncommitted use of the code c
InFlight(c) == {r \in ReqIds : req[r].pc = "inviting" /\ req[r].code = c}

UsesAllowed(c) == IF codes[c].max_uses > 0 THEN codes[c].max_uses ELSE 0

C3_UsedCountBounds ==
    \A c \in CodeIds :
        codes[c].exists
            => /\ 0 <= codes[c].used_count
               /\ codes[c].used_count <= codes[c].max_uses

(* ---------------------------------------------------------------------- *)
(* Properties of the worker lifecycle                                      *)
(* ---------------------------------------------------------------------- *)
\* C11: under any sequence of start_task_worker and stop_task_worker calls
\* at most one invite_worker task is alive; a task is only created when none
\* is alive, and the dispatcher only moves while one is.
C11_SingleConsumer ==
    /\ [](liveTasks \in {0, 1})
    /\ []((pc \in {"none", "done"}) <=> (liveTasks = 0))
    /\ [][liveTasks' > liveTasks => liveTasks = 0]_vars
    /\ [][(inviteRecords' # inviteRecords \/ queueRecords' # queueRecords
           \/ Len(calls') > Len(calls))
             => (liveTasks = 1 /\ liveTasks' = 1)]_vars

\* a worker that was started again after a stop is dispatching a group
C11_Witness ==
    /\ liveTasks = 1
    /\ stops = 1
    /\ pc = "bulk"

(* ---------------------------------------------------------------------- *)
(* Properties of the request path                                          *)
(* ---------------------------------------------------------------------- *)
\* C12: a redemption request consumes, enqueues and answers without waiting
\* for a provisioning call: no request is ever suspended in invite_members,
\* every request answered with success has put an item into the queue, and
\* no request has written the record of the final outcome itself.
C12_NonBlockingRequest ==
    /\ \A r \in ReqIds : req[r].pc # "inviting"
    /\ outcomes["success"] <= nextId - 1
    /\ \A i \in DOMAIN inviteRecords :
          inviteRecords[i].batch_id \notin {"redeem", "direct"}

RowFound(endpoint, c) ==
    /\ c \in CodeIds
    /\ codes[c].exists
    /\ codes[c].is_active
    /\ (endpoint = "direct_redeem" => codes[c].code_type = "direct")

Answered(o) == outcomes' = [outcomes EXCEPT ![o] = @ + 1]

\* C14: a request is answered "invalid" when its code does not exist or is
\* inactive, else "expired" when the expiry has passed (also when the code
\* is used up as well), else "used up" when used_count >= max_uses, and
\* only otherwise goes on to the conditional UPDATE; a request that is
\* answered with a failure leaves every code row as it was.
C14_LedgerValidation ==
    /\ [][\A r \in {q \in ReqIds : req'[q].pc # req[q].pc},
            e \in {"use_redeem_code", "direct_redeem"},
            c \in CodeIds \cup {0} :
            RedeemSelect(r, e, c)
                => /\ ~RowFound(e, c) => Answered("invalid")
                   /\ (RowFound(e, c) /\ codes[c].expired)
                         => Answered("expired")
                   /\ (/\ RowFound(e, c)
                       /\ ~codes[c].expired
                       /\ codes[c].used_count >= codes[c].max_uses)
                         => Answered("exhausted")
                   /\ (/\ RowFound(e, c)
                       /\ ~codes[c].expired
                       /\ codes[c].used_count < codes[c].max_uses)
                         => (outcomes' = outcomes
                             /\ req'[r].pc = "selected")]_vars
    /\ [][\A o \in Outcomes \ {"success"} :
            outcomes'[o] > outcomes[o] => codes' = codes]_vars

\* a request on a code that is both expired and used up was answered
\* "expired"
C14_Witness ==
    /\ outcomes["expired"] = 1
    /\ outcomes["exhausted"] = 0
    /\ \E c \in CodeIds : /\ codes[c].expired
                          /\ codes[c].max_uses <= 0

(* ---------------------------------------------------------------------- *)
(* Properties of the seat resolver                                         *)
(* ---------------------------------------------------------------------- *)
SmallestId(S) == CHOOSE x \in S : \A y \in S : x <= y

\* C15: the team resolved for a group is the one with the smallest id among
\* the active teams of the scope that have a free seat, and no team exactly
\* when there is none.
C15_SmallestId ==
    \A k \in DOMAIN groupLog :
        groupLog[k].team =
            IF SpareTeams(groupLog[k].gid) = {} THEN NoTeam
            ELSE SmallestId(SpareTeams(groupLog[k].gid))

\* the teams the claim makes candidates of a scope: those of the pool with
\* the given id, else those of the pool with the given name, else all
InScope(group_id, group_name) ==
    IF group_id # None
    THEN {t \in TeamIds : TeamGroupId[t] = group_id}
    ELSE IF group_name # ""
    THEN {t \in TeamIds : /\ TeamGroupId[t] # None
                          /\ TeamGroupName[TeamGroupId[t]] = group_name}
    ELSE TeamIds

\* C16: the candidates of a resolver call are exactly the active teams with
\* a free seat of the pool with the given id; without an id, of the pool
\* with the given name; without either, of all teams, whatever their pool
\* (or none); the answer is one of the candidates, or None without any.
C16_ScopeResolution ==
    resolved.caller # "none"
        => /\ resolved.candidates =
                 {t \in InScope(resolved.group_id, resolved.group_name) :
                     active[t] /\ members[t] < TeamMaxSeats[t]}
           /\ IF resolved.candidates = {}
              THEN resolved.team = NoTeam
              ELSE resolved.team \in resolved.candidates

\* a lookup by name returned a team of that pool although a team of another
\* pool and the team without a pool had a free seat as well
C16_Witness ==
    /\ resolved.caller = "get_available_team"
    /\ resolved.group_id = None
    /\ resolved.group_name = "LinuxDO"
    /\ resolved.team = 2
    /\ active[3] /\ members[3] = 0
    /\ active[4] /\ members[4] = 0

\* the team t is in the scope of a request of endpoint for the code c: the
\* pool the code is bound to, else the pool named LinuxDO that
\* use_redeem_code supplies, else (direct_redeem supplies none) any team
InCodeScope(t, endpoint, c) ==
    /\ t \in TeamIds
    /\ IF codes[c].group_id # None
       THEN TeamGroupId[t] = codes[c].group_id
       ELSE endpoint = "use_redeem_code"
                => /\ TeamGroupId[t] # None
                   /\ TeamGroupName[TeamGroupId[t]] = "LinuxDO"

\* the rows a step has added to invite_records
NewInviteRecords == {i \in DOMAIN inviteRecords' : i > Len(inviteRecords)}

\* C17: the provisioning call and the success record of a redemption go to
\* a team of the pool its code (in the worker: its queue item) is bound to,
\* and to a team of the pool the caller supplies when there is no binding.
C17_PoolBinding ==
    /\ [](\A r \in ReqIds :
            req[r].pc = "inviting"
                => InCodeScope(req[r].team, req[r].endpoint, req[r].code))
    /\ [](\A i \in DOMAIN inviteRecords :
            /\ inviteRecords[i].batch_id = "redeem"
                 => InCodeScope(inviteRecords[i].team_id, "use_redeem_code",
                                inviteRecords[i].redeem_code)
            /\ inviteRecords[i].batch_id = "direct"
                 => InCodeScope(inviteRecords[i].team_id, "direct_redeem",
                                inviteRecords[i].redeem_code))
    /\ [](\A k \in DOMAIN calls :
            /\ calls[k].team \in TeamIds
            /\ \A j \in DOMAIN calls[k].items :
                 calls[k].items[j].group_id # None
                     => TeamGroupId[calls[k].team] = calls[k].items[j].group_id)
    /\ [][\A i \in NewInviteRecords :
            inviteRecords'[i].batch_id \in {"batch", "retry", "none"}
                => /\ groups # <<>>
                   /\ inviteRecords'[i].team_id = team
                   /\ \E j \in DOMAIN groups[1].items :
                        /\ groups[1].items[j].email = inviteRecords'[i].email
                        /\ groups[1].items[j].group_id # None
                             => TeamGroupId[team] = groups[1].items[j].group_id
          ]_vars

\* a redemption with a code bound to pool 2 was recorded on team 3 although
\* the teams of pool 1 have free seats
C17_Witness ==
    /\ members[1] = 0 /\ members[2] = 0
    /\ \E i \in DOMAIN inviteRecords :
         /\ inviteRecords[i].batch_id = "redeem"
         /\ inviteRecords[i].status = "success"
         /\ inviteRecords[i].team_id = 3
         /\ codes[inviteRecords[i].redeem_code].group_id = 2

CallsOfKind(id, kind) == {i \in CallsWith(id) : calls[i].kind = kind}

\* the row the claim expects for an email whose retry call failed
FailedRecord(id, t, result) ==
    [email |-> id, team_id |-> t, status |-> "failed", batch_id |-> "none",
     error_message |->
         [error |-> result,
          length |-> IF ErrorText(result).length <= 200
                     THEN ErrorText(result).length ELSE 200],
     accepted_at |-> None]

\* C19: in one cycle an email is in at most one bulk call and, only after
\* that call raised the API error, in at most one call of its own, so a
\* group of n emails causes at most n + 1 calls; an email that was sent is
\* never back in the queue; the step in which the call for one email fails
\* adds its record with status failed and the (first 200 characters of the)
\* error message, and the commit of the loop stores the records as they are.
C19_BoundedRetry ==
    /\ [](\A id \in 1..(nextId - 1) :
            /\ Cardinality(CallsWith(id)) <= 2
            /\ Cardinality(CallsOfKind(id, "bulk")) <= 1
            /\ Cardinality(CallsOfKind(id, "retry")) <= 1
            /\ \A i \in CallsOfKind(id, "retry") :
                 \E k \in CallsOfKind(id, "bulk") :
                     k < i /\ calls[k].result = "api_error"
            /\ CallsWith(id) # {} => id \notin Range(Ids(queue)))
    /\ [](\A k \in DOMAIN calls :
            calls[k].kind = "bulk"
                => Cardinality({j \in DOMAIN calls :
                                    calls[j].gid = calls[k].gid})
                       <= Len(calls[k].ids) + 1)
    /\ [][(/\ pc = "retry_call"
           /\ pc' = "retry_sleep"
           /\ calls'[Len(calls')].result # "ok")
             => pending' = Append(pending,
                                  FailedRecord(calls[Len(calls)].ids[1],
                                               calls[Len(calls)].team,
                                               calls'[Len(calls')].result))
       ]_vars
    /\ [][(pending # <<>> /\ pending' = <<>> /\ pc' # "done")
             => inviteRecords' = inviteRecords \o pending]_vars

\* a cycle has ended in which the bulk call of a group of two emails failed
\* and was followed by exactly two calls, one of which failed as well and
\* left a failed record with the error message cut to 200 characters
C19_Witness ==
    /\ cycleEnd = "normal"
    /\ \E k \in DOMAIN calls :
         /\ calls[k].kind = "bulk"
         /\ calls[k].result = "api_error"
         /\ Len(calls[k].ids) = 2
         /\ Cardinality({j \in DOMAIN calls : calls[j].gid = calls[k].gid}) = 3
         /\ \E id \in Range(calls[k].ids) :
              /\ \E i \in CallsOfKind(id, "retry") :
                   calls[i].result = "api_error"
              /\ \E r \in InviteRecordsOf(id) :
                   /\ inviteRecords[r].status = "failed"
                   /\ inviteRecords[r].error_message.length = 200

\* the number of items a step takes from the queue into a new batch
Collected == IF batch' # batch /\ batch' # <<>> THEN Len(batch') ELSE 0

\* C20: the queue grows by one with every accepted enqueue and shrinks by
\* the items the worker collects, and by nothing else; a status call answers
\* with the length the queue has at the call, between 0 and max_size, with
\* max_size the capacity of the queue, batch_size BATCH_SIZE and
\* batch_interval 3, and leaves the queue, the items and all records as
\* they are.
C20_QueueStatus ==
    /\ [][Len(queue') = Len(queue) + (nextId' - nextId) - Collected]_vars
    /\ [][status' # status
            => /\ status'.queue_size = Len(queue)
               /\ status'.queue_size \in 0..status'.max_size
               /\ status'.max_size = QUEUE_MAXSIZE
               /\ status'.batch_size = BATCH_SIZE
               /\ status'.batch_interval = 3
               /\ queue' = queue
               /\ batch' = batch /\ groups' = groups /\ pending' = pending
               /\ inviteRecords' = inviteRecords
               /\ queueRecords' = queueRecords]_vars

\* a status call answered 1 while one item was queued and another one was
\* in the batch the worker is processing
C20_Witness ==
    /\ status.queue_size = 1
    /\ status.max_size = QUEUE_MAXSIZE
    /\ Len(queue) = 1
    /\ Len(batch) = 1
    /\ pc = "bulk"

(* ---------------------------------------------------------------------- *)
(* Properties of the queue and the worker, continued                       *)
(* ---------------------------------------------------------------------- *)
\* C21: whatever the worker does (never started, waiting, in a batch,
\* stopped), enqueue_invite can be called while the queue holds fewer than
\* QUEUE_MAXSIZE items, and an attempt then appends the item; an item leaves
\* the queue only in the step in which the waiting worker takes it into
\* its batch.
C21_EnqueueIndependent ==
    /\ []((Len(queue) < QUEUE_MAXSIZE /\ nextId <= MaxEnqueued)
            => ENABLED (\E g \in GroupHints : enqueue_invite(g)))
    /\ [][(EnqueueAttempt /\ Len(queue) < QUEUE_MAXSIZE)
            => /\ lastEvent' = "enqueue_ok"
               /\ Len(queue') = Len(queue) + 1
               /\ SubSeq(queue', 1, Len(queue)) = queue
               /\ queue'[Len(queue')].email = nextId
               /\ UNCHANGED workerVars]_vars
    /\ [][\A i \in DOMAIN queue :
            \/ queue[i] \in Range(queue')
            \/ /\ pc = "wait"
               /\ queue[i] \in Range(batch')]_vars

\* the worker has been stopped and the queue holds the items that were
\* enqueued, up to its capacity
C21_Witness ==
    /\ pc = "done"
    /\ stops = 1
    /\ lastEvent = "enqueue_ok"
    /\ Len(queue) = QUEUE_MAXSIZE

\* the groups of gs that are not in the sequence rest
Dropped(gs, rest) ==
    {i \in DOMAIN gs : \A j \in DOMAIN rest : rest[j].gid # gs[i].gid}

\* C22: after a notification that failed, the emails of its bulk call have
\* their success records and none of them is retried; the step in which a
\* notification ends, failed or not, changes no invite record and goes on
\* with the next group: every later group of the batch is either still to
\* be dispatched or has just been recorded as without capacity.
C22_NotifyIsolated ==
    /\ [](\A k \in DOMAIN calls :
            calls[k].notify = "failed"
                => /\ calls[k].kind = "bulk" /\ calls[k].result = "ok"
                   /\ \A id \in Range(calls[k].ids) :
                        /\ RetryCallsOf(id) = {}
                        /\ Cardinality(InviteRecordsOf(id)) = 1
                        /\ \A r \in InviteRecordsOf(id) :
                             inviteRecords[r].status = "success")
    /\ [][(pc = "notify" /\ pc' # "notify" /\ stops' = stops)
            => /\ inviteRecords' = inviteRecords
               /\ pending' = pending
               /\ pc' \in {"bulk", "sleep"}
               /\ calls'[Len(calls')].kind = "bulk"
               /\ cycleEnd' \in {"running", "normal"}
               /\ \A i \in Dropped(Tail(groups), groups') :
                    \A id \in Range(Ids(Tail(groups)[i].items)) :
                        \E q \in DOMAIN queueRecords' :
                            /\ q > Len(queueRecords)
                            /\ queueRecords'[q].email = id
               /\ pc' = "sleep" => groups' = <<>>
               /\ (Tail(groups) # <<>> /\ Dropped(Tail(groups), groups') = {})
                    => (pc' = "bulk" /\ groups' = Tail(groups))]_vars

\* the notification for the first group of a batch failed and the bulk call
\* of the second group has been made
C22_Witness ==
    /\ pc = "bulk"
    /\ Len(calls) = 2
    /\ calls[1].notify = "failed"
    /\ calls[2].kind = "bulk"
    /\ calls[2].gid # calls[1].gid
    /\ \A id \in Range(calls[1].ids) :
         \E r \in InviteRecordsOf(id) : inviteRecords[r].status = "success"

\* the email id has a record of the dispatcher, success or failed
Terminal(id) == InviteRecordsOf(id) # {} \/ QueueRecordsOf(id) # {}

\* C23: an email that has its record is neither in the queue nor in a call
\* that is in flight; the batch a cycle collects holds no email with a
\* record; and the queue grows only by the item an enqueue_invite appends,
\* in a step that leaves the worker as it is.
C23_NeverRequeued ==
    /\ [](\A id \in 1..(nextId - 1) :
            Terminal(id)
                => /\ id \notin Range(Ids(queue))
                   /\ \A k \in CallsWith(id) : calls[k].result # "pending")
    /\ [][(batch' # batch /\ batch' # <<>>)
            => \A id \in Range(Ids(batch')) : ~Terminal(id)]_vars
    /\ [][\A i \in DOMAIN queue' :
            queue'[i] \notin Range(queue)
                => /\ queue' = Append(queue, queue'[i])
                   /\ queue'[i].email = nextId
                   /\ nextId' = nextId + 1
                   /\ lastEvent' = "enqueue_ok"
                   /\ UNCHANGED workerVars]_vars

\* the first email has its record and the worker is in a later cycle, whose
\* batch holds the second email only
C23_Witness ==
    /\ Terminal(1)
    /\ pc = "bulk"
    /\ Ids(batch) = <<2>>
    /\ queue = <<>>

(* ---------------------------------------------------------------------- *)
(* Properties of the records                                               *)
(* ---------------------------------------------------------------------- *)
\* C24, as claimed: no step changes any field of a record that exists.
C24_RecordImmutable ==
    [][/\ \A i \in DOMAIN inviteRecords :
            i \in DOMAIN inviteRecords' /\ inviteRecords'[i] = inviteRecords[i]
       /\ \A i \in DOMAIN queueRecords :
            i \in DOMAIN queueRecords' /\ queueRecords'[i] = queueRecords[i]
      ]_vars

\* C24, amended: no step removes a record or changes a field of it, except
\* that accepted_at of a success record goes from None to the time of a sync;
\* failed records and accepted records never change.
C24_ImmutableButAccepted ==
    [][/\ \A i \in DOMAIN inviteRecords :
            /\ i \in DOMAIN inviteRecords'
            /\ \/ inviteRecords'[i] = inviteRecords[i]
               \/ /\ inviteRecords[i].status = "success"
                  /\ inviteRecords[i].accepted_at = None
                  /\ inviteRecords'[i] =
                       [inviteRecords[i] EXCEPT !.accepted_at = SyncTime]
       /\ \A i \in DOMAIN queueRecords :
            i \in DOMAIN queueRecords' /\ queueRecords'[i] = queueRecords[i]
      ]_vars

\* a sync has marked the success record of one email accepted, and has left
\* the failed record of another email of the same team as it was
C24_Witness ==
    \E i, j \in DOMAIN inviteRecords :
        /\ inviteRecords[i].status = "success"
        /\ inviteRecords[i].accepted_at = SyncTime
        /\ inviteRecords[j].status = "failed"
        /\ inviteRecords[j].team_id = inviteRecords[i].team_id
        /\ members[inviteRecords[i].team_id] = 1

(* ---------------------------------------------------------------------- *)
(* Properties of the error handling                                        *)
(* ---------------------------------------------------------------------- *)
\* the external errors that are worth a retry: a timeout (408), a rate limit
\* (429), a network or server error (500 and above)
Transient(status_code) ==
    status_code = 408 \/ status_code = 429 \/ status_code >= 500

\* C25: a per-item retry call is issued for a group only after a bulk call of
\* that group that failed with a transient error; after a permanent error
\* no call follows for the group.
C25_PermanentNotRetried ==
    \A i \in DOMAIN calls :
        calls[i].kind = "retry" =>
            \A k \in 1..(i - 1) :
                (/\ calls[k].kind = "bulk"
                 /\ calls[k].gid = calls[i].gid
                 /\ calls[k].result = "api_error")
                => Transient(calls[k].status_code)

\* the groups of the batch whose bulk call raised an exception that is not
\* an API error
FailedGroups ==
    {calls[k].gid : k \in {j \in DOMAIN calls : calls[j].result = "exception"
                                                /\ calls[j].kind = "bulk"}}

\* C26: when a cycle is over, every item of the batch whose group is not one
\* that failed with an unexpected exception has been dispatched and has its
\* terminal record.
C26_GroupIsolation ==
    pc = "sleep" =>
        \A i \in DOMAIN batch :
            GroupKey(batch[i]) \notin FailedGroups
                => /\ \E k \in DOMAIN groupLog :
                         batch[i].email \in Range(groupLog[k].ids)
                   /\ Terminal(batch[i].email)

(* ---------------------------------------------------------------------- *)
(* Properties of the request path                                          *)
(* ---------------------------------------------------------------------- *)
\* the requests that have entered their handler and have not been answered
RequestsInFlight == {r \in ReqIds : req[r].pc \in {"selected", "inviting"}}

C28_CollectStep ==
    /\ [][(batch' # batch /\ batch' # <<>>)
            => /\ pc = "wait"
               /\ Len(batch') >= 1
               /\ Len(batch') <= BATCH_SIZE
               /\ Len(batch') <= Len(queue)
               /\ batch' = SubSeq(queue, 1, Len(batch'))
               /\ queue' = SubSeq(queue, Len(batch') + 1, Len(queue))
               /\ (Len(batch') = BATCH_SIZE \/ queue' = <<>>)]_vars
    /\ [][(pc = "wait" /\ queue = <<>>)
            => /\ pc' = "wait"
               /\ batch' = <<>>
               /\ calls' = <<>>
               /\ inviteRecords' = inviteRecords
               /\ queueRecords' = queueRecords]_vars
    /\ []((InGroup \/ pc = "sleep")
            => (Len(batch) >= 1 /\ Len(batch) <= BATCH_SIZE))

\* a full batch is in process while the item enqueued after it waits in the
\* queue
C28_Witness ==
    /\ InGroup
    /\ Len(batch) = BATCH_SIZE
    /\ Len(queue) = 1
    /\ queue[1].email = BATCH_SIZE + 1

\* the emails of the calls of the cycle for the group gid, in the order in
\* which they were passed to invite_members by calls of this kind
RECURSIVE Passed(_, _, _)
Passed(f, gid, kind) ==
    IF f = <<>> THEN <<>>
    ELSE (IF Head(f).gid = gid /\ Head(f).kind = kind THEN Head(f).ids
          ELSE <<>>) \o Passed(Tail(f), gid, kind)

Ascending(ids) ==
    \A a, b \in DOMAIN ids : a < b => ids[a] < ids[b]

\* C29: the emails of a group are passed to the bulk call, and to the calls
\* of the retry loop, in the order in which they were enqueued; and every
\* email that is passed to a call was enqueued before every item that is
\* still in the queue, which only a later cycle can dispatch.
C29_DispatchOrder ==
    \A k \in DOMAIN calls :
        /\ Ascending(Passed(calls, calls[k].gid, "bulk"))
        /\ Ascending(Passed(calls, calls[k].gid, "retry"))
        /\ \A i \in DOMAIN queue :
              \A id \in Range(calls[k].ids) : id < queue[i].email

\* the two emails of a group have been retried one after the other, in
\* their enqueue order, while the item enqueued after them is in the queue
C29_Witness ==
    /\ pc = "retry_call"
    /\ Len(calls) = 3
    /\ calls[1].ids = <<1, 2>>
    /\ calls[2].ids = <<1>>
    /\ calls[3].ids = <<2>>
    /\ Len(queue) = 1
    /\ queue[1].email = 3

(* ---------------------------------------------------------------------- *)
(* Properties of the success path                                          *)
(* ---------------------------------------------------------------------- *)
\* the position of the effect e in the effects of a call, 0 when absent
Position(effects, e) ==
    IF \E i \in DOMAIN effects : effects[i] = e
    THEN CHOOSE i \in DOMAIN effects : effects[i] = e
    ELSE 0

Removed == {id \in 1..(nextId - 1) : id \notin Range(Ids(queue))}

\* C31: once the worker is between two cycles, or has ended, every email
\* that was taken off the queue has exactly one committed record, be it an
\* invite record or a record of the no-capacity path.
C31_ExactlyOneRecord ==
    pc \in {"wait", "done"}
        => \A id \in Removed :
              Cardinality(InviteRecordsOf(id))
                  + Cardinality(QueueRecordsOf(id)) = 1

\* the seats of the team t that no member row occupies
FreeSeats(t) == TeamMaxSeats[t] - members[t]

\* C32: a call of invite_members carries no more emails than the team it
\* goes to had spare seats when it was chosen (the worker adds no member
\* row, so the member count of the team is the one the query saw).
C32_CallWithinSpare ==
    \A k \in DOMAIN calls :
        calls[k].team # NoTeam => Len(calls[k].ids) <= FreeSeats(calls[k].team)

\* C33: the queue ids that enqueue_invite has returned are all different.
C33_QueueIdsDistinct ==
    \A i, j \in DOMAIN queueIds : i # j => queueIds[i] # queueIds[j]

InQueue(id) == id \in Range(Ids(queue))

\* C34: an item in the queue is eventually collected into a batch unless
\* the worker is not running (never started, or cancelled), and once the
\* producers have stopped the queue stays empty from some point on unless
\* the worker is not running.
C34_EventuallyCollected ==
    /\ \A id \in 1..MaxEnqueued :
          InQueue(id) ~> (~InQueue(id) \/ ~WorkerRunning)
    /\ <>[](queue = <<>> \/ ~WorkerRunning)

\* every item the producers could enqueue was accepted and collected by a
\* running worker, which waits on the empty queue again
C34_Witness ==
    /\ nextId = MaxEnqueued + 1
    /\ queue = <<>>
    /\ Removed = 1..MaxEnqueued
    /\ pc = "wait"

\* C35: direct_redeem answers "invalid" for every row of type linuxdo, no
\* request of direct_redeem ever gets past the selection with such a row
\* (the conditional increment of used_count is made only after it), and so
\* no step of such a request changes the row.
C35_NoAnonymousUse ==
    /\ \A e \in directLog : e.code_type = "linuxdo" => e.outcome = "invalid"
    /\ \A r \in ReqIds :
          req[r].endpoint = "direct_redeem" /\ req[r].code \in CodeIds
              => codes[req[r].code].code_type = "direct"

\* direct_redeem was called on an active row of type linuxdo and answered
\* "invalid"; the row has a use left and none was taken
C35_Witness ==
    /\ [code_type |-> "linuxdo", is_active |-> TRUE, outcome |-> "invalid"]
          \in directLog
    /\ \E c \in CodeIds :
          /\ codes[c].exists /\ codes[c].code_type = "linuxdo"
          /\ codes[c].used_count = 0 /\ codes[c].max_uses > 0

AllRecords == <<inviteRecords, queueRecords>>

\* C36: a stop_task_worker that found a running worker leaves the task done
\* and the queue as it was; while the task is done no item leaves the
\* queue, no call is made and no record is written; the only way out of
\* "done" is a start_task_worker, which makes one new task wait on the same
\* queue; and an item that a worker started after a stop finds in the queue
\* is eventually collected (unless that worker is stopped too).
C36_StopThenRestart ==
    /\ [][stops' > stops
             => /\ pc' = "done"
                /\ liveTasks' = 0
                /\ queue' = queue]_vars
    /\ [][pc = "done"
             => /\ Len(queue') >= Len(queue)
                /\ SubSeq(queue', 1, Len(queue)) = queue
                /\ batch' = <<>>
                /\ Len(calls') <= Len(calls)
                /\ AllRecords' = AllRecords
                /\ pc' \in {"done", "wait"}
                /\ pc' = "wait" => (liveTasks' = 1 /\ queue' = queue)]_vars
    /\ \A id \in 1..MaxEnqueued :
          (stops > 0 /\ pc = "wait" /\ InQueue(id))
              ~> (~InQueue(id) \/ ~WorkerRunning)

\* a worker started after a stop has collected a batch and is calling the
\* API for it
C36_Witness ==
    /\ stops > 0
    /\ liveTasks = 1
    /\ pc = "bulk"
    /\ batch # <<>>
    /\ queue = <<>>

\* C37: a call of get_available_team without a group id and with a name
\* that no group has returns None and has no candidates, whatever teams are
\* active and have free seats.
C37_UnknownNameNoFallback ==
    (/\ resolved.caller = "get_available_team"
     /\ resolved.group_id = None
     /\ resolved.group_name # ""
     /\ \A g \in GroupIds : TeamGroupName[g] # resolved.group_name)
        => /\ resolved.team = NoTeam
           /\ resolved.candidates = {}

\* the lookup by a name that no group has returned None although a team of
\* a group and the team without a group were active with a free seat
C37_Witness ==
    /\ resolved.caller = "get_available_team"
    /\ resolved.group_id = None
    /\ resolved.group_name = "Missing"
    /\ resolved.team = NoTeam
    /\ active[2] /\ members[2] < TeamMaxSeats[2]
    /\ active[4] /\ members[4] < TeamMaxSeats[4]

\* the offset of the chunk that holds position k
ChunkOffsetOf(k) == ((k - 1) \div batch_size) * batch_size

\* C38: the response of the admin invite holds one result per email of the
\* request, in the order of the request; a result is a failure only if the
\* bulk call of its chunk and the call for the email alone both failed; and
\* success_count + fail_count is the number of emails.
C38_OneResultPerEmail ==
    admin.status = 200
        => /\ Len(admin.results) = Len(admin.emails)
           /\ \A k \in DOMAIN admin.results :
                 /\ admin.results[k].email = admin.emails[k]
                 /\ ~admin.results[k].success
                       => /\ ChunkOffsetOf(k) \in admin.bulk_failed
                          /\ k \in admin.single_failed
           /\ admin.success_count + admin.fail_count = Len(admin.emails)
           /\ admin.total = Len(admin.emails)

\* a request of two chunks with two different addresses: the bulk call of
\* one chunk failed, one email of it failed again alone and another went
\* through alone, and the bulk call of the other chunk went through
C38_Witness ==
    /\ admin.status = 200
    /\ Len(admin.emails) > batch_size
    /\ \E j, k \in DOMAIN admin.results :
          /\ ChunkOffsetOf(j) = ChunkOffsetOf(k)
          /\ ~admin.results[j].success
          /\ admin.results[k].success
          /\ admin.emails[j] # admin.emails[k]
    /\ \E k \in DOMAIN admin.results : ChunkOffsetOf(k) \notin admin.bulk_failed
    /\ admin.success_count = 2
    /\ admin.fail_count = Len(admin.emails) - 2

====
